---- MODULE Spec2Model ----
(***************************************************************************)
(* State-machine model of the AI-answer pipeline of the X-AI-Forum server: *)
(* the forum-post route, the WebSocket chat handler, the document routes,  *)
(* the Slack bridge, the post-read and comment-vote routes, the two        *)
(* Response Generator implementations, the in-memory store (MemStorage)    *)
(* and the ChromaDB context retriever.                                     *)
(*                                                                         *)
(* Every handler is an async function.  MemStorage's methods contain no    *)
(* await: a call takes effect when it is made and the handler's await on   *)
(* it resumes in the same event-loop turn, before any I/O event is served. *)
(* An action of the model is therefore the code a handler runs between two *)
(* awaits on external I/O (the vector store, the model provider), and the  *)
(* effect of an external call on its server is an action of its own.  The  *)
(* WebSocket handler is also split at its first await, because frames that *)
(* arrive together are dispatched in one turn and their handlers then      *)
(* interleave at that await.  The post-read and comment-vote routes read   *)
(* the store and then write what they computed from the read; they are     *)
(* split at the await between the two, which is a round trip to the        *)
(* database when the store is DatabaseStorage (storage.ts.new).            *)
(*                                                                         *)
(* Texts are sequences of tokens: the empty string is << >> and string     *)
(* concatenation is \o.                                                    *)
(***************************************************************************)
EXTENDS Integers, Sequences, FiniteSets, TLC

\* ------------------------------------------------------------------ bounds
\* forum-post and comment requests, together
MaxPostReqs == 2
\* chat sessions
MaxChats == 2
\* chat creations, WebSocket frames and message reads, together
MaxChatReqs == 3
\* document uploads, deletes and retriever calls, together
MaxDocReqs == 3
\* direct calls of generateForumAIResponse
MaxPromptReqs == 2
\* Slack webhook requests
MaxSlackReqs == 2
\* GET /api/posts/:postId requests
MaxGetReqs == 2
\* comment vote requests
MaxVoteReqs == 3

\* ------------------------------------------------------- program constants
\* routes.ts:332  userId: 1, the system user MemStorage creates first
SystemUserId == 1
\* chromadb.ts:151  limit: number = 5
DefaultLimit == 5
\* schema: embedding_id is nullable; 0 stands for null
Null == 0

\* chromadb.ts:10-15
COLLECTION_NAMES ==
  [technical |-> "technical_support_docs",
   ideas     |-> "product_ideas_docs",
   general   |-> "general_queries_docs",
   hr        |-> "hr_onboarding_docs"]

\* schema forumCategoryEnum
forumCategoryEnum == {"technical", "ideas", "general", "hr"}

\* what a value that is not a string (undefined) reads as
Undefined == <<"undefined">>

\* ------------------------------------------------------------ input sets
\* session users (ids after the system user)
Users == {2, 3}
\* the value of req.session.userId when nobody is logged in
NoSession == 0
\* categories the requests of the model use; "bogus" is outside the enum
InputCategories == {"technical", "hr"}
BadCategory == "bogus"
Titles == {<<"VPN setup">>}
Contents == {<<"How do I configure VPN on Linux?">>}
\* the content of a human comment; Undefined when the body has none
CommentContents == {<<"Try openconnect">>, Undefined}
Replies == {<<"reply">>}
\* the (user, category) the n-th chat session is opened with
ChatInputs == <<<<2, "technical">>, <<3, "hr">>, <<2, "hr">>, <<3, "technical">>>>
DocNames == {<<"Runbook">>, << >>}
DocTexts == {<<"Use openconnect with profile X">>}

VARIABLES
  \* MemStorage
  posts, postIdCounter,
  comments, commentIdCounter,
  aiChats, aiChatIdCounter,
  aiChatMessages, aiChatMessageIdCounter,
  documents, documentIdCounter,
  \* ChromaDB server: the collections that exist and their entries
  collections, index,
  \* uploaded files on disk
  files,
  \* in-flight and finished POST /api/forums/:category/posts requests; calls
  \* are the calls the request made to the model provider
  postReqs,
  \* POST /api/posts/:postId/comments requests
  commentReqs,
  \* WebSocket message-handler invocations, with the calls each made to the
  \* model provider and the events each sent on its socket
  deliveries,
  \* GET /api/ai-chats/:chatId/messages responses
  reads,
  \* POST /api/documents requests with their background ingestion
  uploads, docIdCounter,
  \* DELETE /api/documents/:documentId requests
  deletes,
  \* direct calls of getContextForQuery
  queries,
  \* calls of generateForumAIResponse of either implementation, with the
  \* system prompt each built
  prompts,
  \* POST /api/slack/webhook requests with their handleSlackEvent run: the
  \* calls each made to the model provider and the messages it posted
  slack,
  \* GET /api/posts/:postId requests, with the post each read
  gets,
  \* MemStorage votes, and POST /api/comments/:commentId/votes requests with
  \* the vote each found
  votes, voteIdCounter, voteReqs

storeVars == <<posts, postIdCounter, comments, commentIdCounter, aiChats,
               aiChatIdCounter, aiChatMessages, aiChatMessageIdCounter,
               documents, documentIdCounter>>
chromaVars == <<collections, index>>
forumVars == <<postReqs, commentReqs>>
chatVars == <<deliveries, reads>>
docVars == <<uploads, docIdCounter, deletes, files>>
voteVars == <<votes, voteIdCounter, voteReqs>>
routeVars == <<prompts, slack, gets, voteVars>>
vars == <<storeVars, chromaVars, forumVars, chatVars, docVars, queries,
          routeVars>>

\* ---------------------------------------------------------------- helpers
Range(s) == {s[i] : i \in DOMAIN s}

\* f with key k set to v (Map.set)
MapSet(f, k, v) == [x \in (DOMAIN f) \cup {k} |-> IF x = k THEN v ELSE f[x]]

\* f without key k (Map.delete)
MapDelete(f, k) == [x \in (DOMAIN f) \ {k} |-> f[x]]

EmptyMap == [x \in {} |-> 0]

RECURSIVE SetToSeqs(_)
\* all orderings of a finite set
SetToSeqs(S) ==
  IF S = {} THEN {<< >>}
  ELSE UNION {{<<x>> \o t : t \in SetToSeqs(S \ {x})} : x \in S}

Prefix(s, n) == IF Len(s) <= n THEN s ELSE SubSeq(s, 1, n)

\* ================================================================ ChromaDB
\* chromadb.ts getCollection: throws for a category without a collection
\* name, and client.getCollection throws when the server is unreachable or
\* the collection does not exist.  up is the availability of the server for
\* this call.
getCollection(category, up) ==
  IF category \notin DOMAIN COLLECTION_NAMES
    THEN [ok |-> FALSE, name |-> ""]
  ELSE IF ~up \/ COLLECTION_NAMES[category] \notin collections
    THEN [ok |-> FALSE, name |-> ""]
  ELSE [ok |-> TRUE, name |-> COLLECTION_NAMES[category]]

\* chromadb.ts queryDocuments: the entries of the category's collection,
\* nearest first (ranking is the order the server chose), at most limit.
queryDocuments(category, limit, up, ranking) ==
  LET c == getCollection(category, up) IN
  IF ~c.ok THEN [ok |-> FALSE, entries |-> << >>]
  ELSE [ok |-> TRUE, entries |-> Prefix(ranking, limit)]

\* the rankings the server can answer a query of this category with
Rankings(category) ==
  IF category \in DOMAIN COLLECTION_NAMES
       /\ COLLECTION_NAMES[category] \in DOMAIN index
    THEN SetToSeqs(index[COLLECTION_NAMES[category]])
    ELSE {<< >>}

RECURSIVE ContextBody(_)
\* chromadb.ts:188-195  context += `${docName}:\n${doc}\n\n`
ContextBody(entries) ==
  IF entries = << >> THEN << >>
  ELSE LET e == Head(entries)
           docName == IF e.name = << >> THEN <<"Document">> ELSE e.name
       IN docName \o <<":\n">> \o e.content \o <<"\n\n">>
            \o ContextBody(Tail(entries))

\* chromadb.ts getContextForQuery without its try/catch: the error of the
\* query escapes to the caller
getContextForQueryNoCatch(category, up, ranking) ==
  LET results == queryDocuments(category, DefaultLimit, up, ranking) IN
  IF ~results.ok THEN [threw |-> TRUE, value |-> << >>, ids |-> {}]
  ELSE IF results.entries = << >>
    THEN [threw |-> FALSE, value |-> << >>, ids |-> {}]
  ELSE [threw |-> FALSE,
        value |-> <<"Relevant information from documents:\n\n">>
                    \o ContextBody(results.entries),
        ids |-> {e.id : e \in Range(results.entries)}]

\* chromadb.ts getContextForQuery: threw tells whether an exception reaches
\* the caller, value is the returned string, ids the entries it was built of
getContextForQuery(category, up, ranking) ==
  LET results == queryDocuments(category, DefaultLimit, up, ranking) IN
  IF ~results.ok THEN [threw |-> FALSE, value |-> << >>, ids |-> {}]
  ELSE IF results.entries = << >>
    THEN [threw |-> FALSE, value |-> << >>, ids |-> {}]
  ELSE [threw |-> FALSE,
        value |-> <<"Relevant information from documents:\n\n">>
                    \o ContextBody(results.entries),
        ids |-> {e.id : e \in Range(results.entries)}]

\* ====================================================== Response Generator
\* no answer of the provider yet
NoResponse == [kind |-> "none", text |-> << >>]

\* the answers of the provider to one InvokeModelCommand: a body with a text
\* block first, a rejected call (network, auth, rate limit), a body that is
\* not JSON, a body without content, with an empty content list, or whose
\* first content block has no text
UpstreamResponses ==
  {[kind |-> "text", text |-> t] : t \in Replies}
    \cup {[kind |-> k, text |-> << >>] :
            k \in {"error", "notJson", "noContent", "emptyContent", "noText"}}

\* awsBedrock generateClaudeResponse: bedrockClient.send, JSON.parse and
\* responseBody.content[0].text inside one try block whose catch rethrows;
\* reading .text of a block without text yields undefined and throws nothing
generateClaudeResponse(response) ==
  IF response.kind \in {"error", "notJson", "noContent", "emptyContent"}
    THEN [threw |-> TRUE, value |-> << >>]
  ELSE IF response.kind = "noText"
    THEN [threw |-> FALSE, value |-> Undefined]
  ELSE [threw |-> FALSE, value |-> response.text]

\* awsBedrock generateForumAIResponse: the messages handed to the model are
\* the chat history followed by the new user message
formattedMessages(userMessage, chatHistory) ==
  [i \in 1..Len(chatHistory) |->
     [role |-> chatHistory[i].role, content |-> chatHistory[i].content]]
   \o <<[role |-> "user", content |-> userMessage]>>

\* awsBedrock generateForumAIResponse: what the provider is called with
generateForumAIResponse(userMessage, chatHistory, forumCategory, contextualData) ==
  [messages |-> formattedMessages(userMessage, chatHistory),
   category |-> forumCategory,
   context |-> contextualData]

\* awsBedrock generateForumAIResponse, switch (forumCategory): the
\* instructions added for each category
CategoryInstructions ==
  [technical |-> <<"When answering technical questions, provide code examples when appropriate and refer to documentation. Be precise and detailed.">>,
   ideas     |-> <<"When discussing product ideas, be constructive and encouraging. Suggest improvements or considerations while remaining positive.">>,
   general   |-> <<"For general queries, provide comprehensive information about the organization, processes, and procedures as needed.">>,
   hr        |-> <<"For HR and onboarding questions, be informative about policies, benefits, and procedures. Maintain confidentiality and refer to HR when appropriate for sensitive matters.">>]

\* what each implementation introduces the context block with
BedrockContextIntro ==
  "\n\nHere is some relevant context to help with your response:\n"

AnthropicContextIntro ==
  "\n\nUse the following information to help answer the query:\n"

\* awsBedrock generateForumAIResponse: the system prompt.  An empty or
\* omitted contextualData is falsy and adds nothing; a category outside the
\* switch adds no instructions
bedrockSystemPrompt(forumCategory, contextualData) ==
  <<"You are a helpful AI assistant for the X-AI-Forum specifically focused on the ",
    forumCategory,
    " category. Provide accurate, concise, and helpful information. Use a professional and friendly tone.">>
    \o (IF contextualData # << >>
          THEN <<BedrockContextIntro>> \o contextualData
          ELSE << >>)
    \o (IF forumCategory \in DOMAIN CategoryInstructions
          THEN <<"\n\n">> \o CategoryInstructions[forumCategory]
          ELSE << >>)

\* claude.ts (Anthropic) generateForumAIResponse: the system prompt
anthropicSystemPrompt(forumCategory, contextualData) ==
  <<"You are an AI assistant for the X-AI Forum platform, specializing in the \"",
    forumCategory,
    "\" category. Your task is to provide helpful, accurate, and concise responses to user questions.">>
    \o (IF contextualData # << >>
          THEN <<AnthropicContextIntro>> \o contextualData
          ELSE << >>)

\* the two implementations of the Response Generator
Implementations == {"bedrock", "anthropic"}

\* the system prompt implementation impl builds
systemPromptOf(impl, forumCategory, contextualData) ==
  IF impl = "bedrock" THEN bedrockSystemPrompt(forumCategory, contextualData)
  ELSE anthropicSystemPrompt(forumCategory, contextualData)

\* the context strings the Context Retriever can hand to a generator
PromptContexts ==
  UNION {{getContextForQuery(c, up, ranking).value :
            up \in BOOLEAN, ranking \in Rankings(c)} : c \in forumCategoryEnum}

\* generateForumAIResponse(userMessage, chatHistory, forumCategory,
\* contextualData) of one implementation, called on its own: the record
\* keeps the arguments and the system prompt the model is given
BuildSystemPrompt ==
  /\ Len(prompts) < MaxPromptReqs
  /\ \E impl \in Implementations, forumCategory \in forumCategoryEnum,
        contextualData \in PromptContexts :
       prompts' = Append(prompts,
         [impl |-> impl, category |-> forumCategory,
          context |-> contextualData,
          system |-> systemPromptOf(impl, forumCategory, contextualData)])
  /\ UNCHANGED <<storeVars, chromaVars, forumVars, chatVars, docVars,
                 queries, slack, gets, voteVars>>

\* ============================================================== MemStorage
\* createPost losing the write: the post is answered for but never stored
createPostLost(insertPost) == posts

\* MemStorage.createPost: the posts map after the insert
createPost(insertPost) ==
  MapSet(posts, postIdCounter,
         [title |-> insertPost.title, content |-> insertPost.content,
          userId |-> insertPost.userId, category |-> insertPost.category,
          views |-> 0, isAnswered |-> FALSE, hasAiAnswer |-> FALSE])

\* updatePost losing the flag
updatePostUnchanged(id) == posts

\* MemStorage.updatePost with data = {hasAiAnswer: true}; an unknown id is
\* left alone
updatePostHasAiAnswer(id) ==
  IF id \notin DOMAIN posts THEN posts
  ELSE MapSet(posts, id, [posts[id] EXCEPT !.hasAiAnswer = TRUE])

\* MemStorage.updatePost with data = {isAnswered: true}
updatePostIsAnswered(id) ==
  IF id \notin DOMAIN posts THEN posts
  ELSE MapSet(posts, id, [posts[id] EXCEPT !.isAnswered = TRUE])

\* MemStorage.updatePost with data = {views}: the other fields are those of
\* the stored post (DatabaseStorage.updatePost sets the given column only)
updatePostViews(id, views) ==
  IF id \in DOMAIN posts
    THEN MapSet(posts, id, [posts[id] EXCEPT !.views = views])
    ELSE posts

\* MemStorage.createComment: the comments map after the insert
createComment(insertComment) ==
  MapSet(comments, commentIdCounter,
         [content |-> insertComment.content, postId |-> insertComment.postId,
          userId |-> insertComment.userId,
          isAiGenerated |-> insertComment.isAiGenerated,
          upvotes |-> 0, downvotes |-> 0])

\* the votes stored for a comment
VotesOfComment(id) == {v \in DOMAIN votes : votes[v].commentId = id}

\* MemStorage.updateCommentVoteCounts: the comment's upvotes and downvotes
\* are recounted from the stored votes; an unknown comment is left alone
updateCommentVoteCounts(id) ==
  IF id \notin DOMAIN comments THEN comments
  ELSE MapSet(comments, id,
         [comments[id] EXCEPT
            !.upvotes = Cardinality({v \in VotesOfComment(id) :
                                       votes[v].voteType = "upvote"}),
            !.downvotes = Cardinality({v \in VotesOfComment(id) :
                                         votes[v].voteType = "downvote"})])

\* MemStorage.createVote
createVote(insertVote) ==
  MapSet(votes, voteIdCounter,
         [commentId |-> insertVote.commentId, userId |-> insertVote.userId,
          voteType |-> insertVote.voteType])

\* MemStorage.getVoteByUserAndComment: the first vote of the user on the
\* comment in the order of the map (the order of creation), Null when
\* there is none
getVoteByUserAndComment(userId, commentId) ==
  LET found == {v \in VotesOfComment(commentId) : votes[v].userId = userId} IN
  IF found = {} THEN Null
  ELSE CHOOSE v \in found : \A w \in found : v <= w

\* MemStorage.updateVote with data = {voteType}; a vote that is gone is not
\* re-created
updateVote(id, voteType) ==
  IF id \notin DOMAIN votes THEN votes
  ELSE MapSet(votes, id, [votes[id] EXCEPT !.voteType = voteType])

\* MemStorage.deleteVote
deleteVote(id) == MapDelete(votes, id)

\* MemStorage.createAiChat
createAiChat(insertAiChat) ==
  MapSet(aiChats, aiChatIdCounter,
         [userId |-> insertAiChat.userId, category |-> insertAiChat.category])

\* MemStorage.createAiChatMessage: no check that the chat exists
createAiChatMessage(insertAiChatMessage) ==
  MapSet(aiChatMessages, aiChatMessageIdCounter,
         [chatId |-> insertAiChatMessage.chatId,
          content |-> insertAiChatMessage.content,
          isUserMessage |-> insertAiChatMessage.isUserMessage])

RECURSIVE MessagesFrom(_, _)
\* the messages of chat chatId with id >= i, in id order
MessagesFrom(chatId, i) ==
  IF i >= aiChatMessageIdCounter THEN << >>
  ELSE (IF i \in DOMAIN aiChatMessages /\ aiChatMessages[i].chatId = chatId
          THEN <<[id |-> i, content |-> aiChatMessages[i].content,
                  isUserMessage |-> aiChatMessages[i].isUserMessage]>>
          ELSE << >>)
       \o MessagesFrom(chatId, i + 1)

RECURSIVE AllMessagesFrom(_)
\* the messages of every chat with id >= i, in id order
AllMessagesFrom(i) ==
  IF i >= aiChatMessageIdCounter THEN << >>
  ELSE (IF i \in DOMAIN aiChatMessages
          THEN <<[id |-> i, content |-> aiChatMessages[i].content,
                  isUserMessage |-> aiChatMessages[i].isUserMessage]>>
          ELSE << >>)
       \o AllMessagesFrom(i + 1)

\* getAiChatMessages without its filter on chatId
getAiChatMessagesUnfiltered(chatId) == AllMessagesFrom(1)

\* MemStorage.getAiChatMessages: the chat's messages sorted by createdAt;
\* ids are handed out in creation order and the sort is stable
getAiChatMessages(chatId) == MessagesFrom(chatId, 1)

\* MemStorage.createDocument
createDocument(insertDocument) ==
  MapSet(documents, documentIdCounter,
         [name |-> insertDocument.name, category |-> insertDocument.category,
          filePath |-> insertDocument.filePath,
          uploadedById |-> insertDocument.uploadedById,
          status |-> "processing", embeddingId |-> Null])

\* updateDocument applying the status and dropping the embedding id
updateDocumentStatusOnly(id, status, embeddingId) ==
  IF id \notin DOMAIN documents THEN documents
  ELSE MapSet(documents, id, [documents[id] EXCEPT !.status = status])

\* MemStorage.updateDocument with data = {status, embeddingId}; a deleted
\* record is not re-created
updateDocument(id, status, embeddingId) ==
  IF id \notin DOMAIN documents THEN documents
  ELSE MapSet(documents, id,
              [documents[id] EXCEPT !.status = status,
                                    !.embeddingId = embeddingId])

\* MemStorage.updateDocument with data = {status}
updateDocumentStatus(id, status) ==
  IF id \notin DOMAIN documents THEN documents
  ELSE MapSet(documents, id, [documents[id] EXCEPT !.status = status])

\* =================================== POST /api/forums/:category/posts
NoPost == 0

\* the route without its inner try/catch: the error of the AI step reaches
\* the outer catch, which answers 500
PostAiFailedNoInnerCatch(req) ==
  [req EXCEPT !.pc = "done", !.http = 500, !.ai = "failed"]

\* what the route does once the AI step has thrown: the inner catch logs
\* and the handler answers 201 with the post
PostAiFailed(req) == [req EXCEPT !.pc = "done", !.http = 201, !.ai = "failed"]

\* routes.ts:304-319  isAuthenticated, insertPostSchema.parse (a ZodError
\* for a missing title or a category outside the enum: 400), createPost,
\* then the call of getContextForQuery(post.title + " " + post.content,
\* category)
PostSubmit ==
  /\ Len(postReqs) + Len(commentReqs) < MaxPostReqs
  /\ \E userId \in Users \cup {NoSession},
        category \in InputCategories \cup {BadCategory},
        title \in Titles \cup {Undefined}, content \in Contents :
       LET req == [pc |-> "done", http |-> 0, userId |-> userId,
                   category |-> category, title |-> title, postId |-> NoPost,
                   ai |-> "none", calls |-> << >>, upstream |-> NoResponse]
       IN
       IF userId = NoSession
         THEN /\ category = BadCategory /\ title = Undefined
              /\ postReqs' = Append(postReqs, [req EXCEPT !.http = 401])
              /\ UNCHANGED <<posts, postIdCounter>>
       ELSE IF title = Undefined \/ category \notin forumCategoryEnum
         THEN /\ userId = CHOOSE u \in Users : TRUE
              /\ postReqs' = Append(postReqs, [req EXCEPT !.http = 400])
              /\ UNCHANGED <<posts, postIdCounter>>
       ELSE /\ posts' = createPost([title |-> title, content |-> content,
                                    userId |-> userId, category |-> category])
            /\ postIdCounter' = postIdCounter + 1
            /\ postReqs' = Append(postReqs,
                 [req EXCEPT !.pc = "retrieving", !.postId = postIdCounter])
  /\ UNCHANGED <<comments, commentIdCounter, aiChats, aiChatIdCounter,
                 aiChatMessages, aiChatMessageIdCounter, documents,
                 documentIdCounter, chromaVars, chatVars, docVars,
                 queries, commentReqs,
                 routeVars>>

\* routes.ts:319-326  getContextForQuery returns and generateForumAIResponse
\* is called with post.content, the one-turn history and the context
PostRetrieveReturn(r) ==
  /\ postReqs[r].pc = "retrieving"
  /\ \E up \in BOOLEAN, ranking \in Rankings(postReqs[r].category) :
       LET c == getContextForQuery(postReqs[r].category, up, ranking)
           post == posts[postReqs[r].postId]
       IN
       IF c.threw
         THEN postReqs' = [postReqs EXCEPT ![r] = PostAiFailed(@)]
         ELSE postReqs' = [postReqs EXCEPT
                ![r].pc = "generating",
                ![r].calls = Append(@,
                   generateForumAIResponse(post.content,
                      <<[role |-> "user",
                         content |-> post.title \o <<"\n">> \o post.content]>>,
                      postReqs[r].category, c.value))]
  /\ UNCHANGED <<storeVars, chromaVars, chatVars, docVars, queries,
                 commentReqs,
                 routeVars>>

\* routes.ts:329-343  the model answered: createComment stores the AI
\* answer, updatePost sets hasAiAnswer, res.status(201).json(post)
PostGenOk(r) ==
  /\ postReqs[r].pc = "generating"
  /\ \E response \in UpstreamResponses :
       LET aiResponse == generateClaudeResponse(response) IN
       /\ ~aiResponse.threw
       /\ comments' = createComment([content |-> aiResponse.value,
                                     postId |-> postReqs[r].postId,
                                     userId |-> SystemUserId,
                                     isAiGenerated |-> TRUE])
       /\ commentIdCounter' = commentIdCounter + 1
       /\ postReqs' = [postReqs EXCEPT ![r].pc = "done", ![r].ai = "ok",
                                       ![r].http = 201,
                                       ![r].upstream = response]
  /\ posts' = updatePostHasAiAnswer(postReqs[r].postId)
  /\ UNCHANGED <<postIdCounter, aiChats, aiChatIdCounter,
                 aiChatMessages, aiChatMessageIdCounter, documents,
                 documentIdCounter, chromaVars, chatVars, docVars,
                 queries, commentReqs,
                 routeVars>>

\* routes.ts:338-343  the model call threw: catch, then res.status(201)
PostGenFail(r) ==
  /\ postReqs[r].pc = "generating"
  /\ \E response \in UpstreamResponses :
       /\ generateClaudeResponse(response).threw
       /\ postReqs' = [postReqs EXCEPT
            ![r] = PostAiFailed([@ EXCEPT !.upstream = response])]
  /\ UNCHANGED <<storeVars, chromaVars, chatVars, docVars, queries,
                 commentReqs,
                 routeVars>>

\* routes.ts:329-343  the model answered and a storage write of the AI step
\* rejects (DatabaseStorage: createComment and updatePost are one query
\* each, storage.ts.new:93-100, 180-183): either createComment throws and
\* nothing is stored, or the comment is stored and updatePost throws; the
\* inner catch logs and the route answers 201
PostGenStoreFail(r) ==
  /\ postReqs[r].pc = "generating"
  /\ \E response \in UpstreamResponses, commentStored \in BOOLEAN :
       LET aiResponse == generateClaudeResponse(response) IN
       /\ ~aiResponse.threw
       /\ IF commentStored
            THEN /\ comments' = createComment([content |-> aiResponse.value,
                                               postId |-> postReqs[r].postId,
                                               userId |-> SystemUserId,
                                               isAiGenerated |-> TRUE])
                 /\ commentIdCounter' = commentIdCounter + 1
            ELSE UNCHANGED <<comments, commentIdCounter>>
       /\ postReqs' = [postReqs EXCEPT
            ![r] = PostAiFailed([@ EXCEPT !.upstream = response])]
  /\ UNCHANGED <<posts, postIdCounter, aiChats, aiChatIdCounter,
                 aiChatMessages, aiChatMessageIdCounter, documents,
                 documentIdCounter, chromaVars, chatVars, docVars,
                 queries, commentReqs, routeVars>>

\* ===================================== POST /api/posts/:postId/comments
\* the comment data with the body spread last, so that its fields win
commentDataBodyLast(body, postId, userId) ==
  [content |-> body.content, postId |-> postId, userId |-> body.userId,
   isAiGenerated |-> body.isAiGenerated]

\* routes.ts:389-394  {...req.body, postId, userId, isAiGenerated: false}:
\* the fields written after the spread replace those of the body
commentData(body, postId, userId) ==
  [content |-> body.content, postId |-> postId, userId |-> userId,
   isAiGenerated |-> FALSE]

\* routes.ts:379-410  isAuthenticated, getPost (404), insertCommentSchema
\* .parse (400 for a body without content), createComment, updatePost
\* {isAnswered: true} when the post read was not answered, 201
CommentSubmit ==
  /\ Len(postReqs) + Len(commentReqs) < MaxPostReqs
  /\ \E userId \in Users \cup {NoSession}, postId \in 1..MaxPostReqs,
        content \in CommentContents, claimsAi \in BOOLEAN :
       LET body == [content |-> content, userId |-> SystemUserId,
                    isAiGenerated |-> claimsAi]
           data == commentData(body, postId, userId)
           creq == [http |-> 0, userId |-> userId, postId |-> postId,
                    claimsAi |-> claimsAi, commentId |-> Null]
       IN
       IF userId = NoSession
         THEN /\ postId = 1 /\ content = Undefined /\ ~claimsAi
              /\ commentReqs' = Append(commentReqs, [creq EXCEPT !.http = 401])
              /\ UNCHANGED <<posts, comments, commentIdCounter>>
       ELSE IF postId \notin DOMAIN posts
         THEN /\ userId = (CHOOSE u \in Users : TRUE)
              /\ content = Undefined /\ ~claimsAi
              /\ commentReqs' = Append(commentReqs, [creq EXCEPT !.http = 404])
              /\ UNCHANGED <<posts, comments, commentIdCounter>>
       ELSE IF content = Undefined
         THEN /\ userId = (CHOOSE u \in Users : TRUE)
              /\ commentReqs' = Append(commentReqs, [creq EXCEPT !.http = 400])
              /\ UNCHANGED <<posts, comments, commentIdCounter>>
       ELSE /\ comments' = createComment(data)
            /\ commentIdCounter' = commentIdCounter + 1
            /\ posts' = IF posts[postId].isAnswered THEN posts
                        ELSE updatePostIsAnswered(postId)
            /\ commentReqs' = Append(commentReqs,
                 [creq EXCEPT !.http = 201, !.commentId = commentIdCounter])
  /\ UNCHANGED <<postIdCounter, aiChats, aiChatIdCounter, aiChatMessages,
                 aiChatMessageIdCounter, documents, documentIdCounter,
                 chromaVars, postReqs, chatVars, docVars, queries,
                 routeVars>>

\* routes.ts:319  the call of getContextForQuery never returns (neither the
\* route nor chromadb.ts sets a timeout): the handler stays suspended
PostRetrieveHang(r) ==
  /\ postReqs[r].pc = "retrieving"
  /\ postReqs' = [postReqs EXCEPT ![r].pc = "retrievalHung"]
  /\ UNCHANGED <<storeVars, chromaVars, chatVars, docVars, queries,
                 commentReqs,
                 routeVars>>

\* routes.ts:321 and awsBedrock bedrockClient.send: the model call never
\* returns (no timeout is set): the handler stays suspended
PostGenHang(r) ==
  /\ postReqs[r].pc = "generating"
  /\ postReqs' = [postReqs EXCEPT ![r].pc = "generationHung"]
  /\ UNCHANGED <<storeVars, chromaVars, chatVars, docVars, queries,
                 commentReqs,
                 routeVars>>

\* ============================================== GET /api/posts/:postId
\* routes.ts:352-358  storage.getPost: 404 when there is no such post, else
\* the handler holds the post it read and awaits storage.updatePost.  The
\* handler is suspended at each await on the store (with DatabaseStorage
\* getPost and updatePost are one query each, storage.ts.new:88-100), and
\* other requests are served meanwhile.
GetPostRead ==
  /\ Len(gets) < MaxGetReqs
  /\ \E postId \in 1..MaxPostReqs :
       gets' = Append(gets,
         IF postId \in DOMAIN posts
           THEN [pc |-> "updating", http |-> 0, postId |-> postId,
                 views |-> posts[postId].views]
           ELSE [pc |-> "done", http |-> 404, postId |-> postId, views |-> 0])
  /\ UNCHANGED <<storeVars, chromaVars, forumVars, chatVars, docVars,
                 queries, prompts, slack, voteVars>>

\* routes.ts:360-372  updatePost(post.id, {views: post.views + 1}) with the
\* views of the post read earlier, getCommentsByPostId, res.json with
\* views: post.views + 1
GetPostUpdate(g) ==
  /\ gets[g].pc = "updating"
  /\ posts' = updatePostViews(gets[g].postId, gets[g].views + 1)
  /\ gets' = [gets EXCEPT ![g].pc = "done", ![g].http = 200,
                          ![g].views = gets[g].views + 1]
  /\ UNCHANGED <<postIdCounter, comments, commentIdCounter, aiChats,
                 aiChatIdCounter, aiChatMessages, aiChatMessageIdCounter,
                 documents, documentIdCounter, chromaVars, forumVars,
                 chatVars, docVars, queries, prompts, slack, voteVars>>

\* the post-read route
Views ==
  \/ GetPostRead
  \/ \E g \in 1..Len(gets) : GetPostUpdate(g)

\* ==================================== POST /api/comments/:commentId/votes
VoteTypes == {"upvote", "downvote"}

\* routes.ts:459-478  isAuthenticated, the check of voteType (400),
\* getComment (404), getVoteByUserAndComment: the handler holds the vote it
\* found.  The handler is suspended at each await on the store (with
\* DatabaseStorage every storage call is a query, storage.ts.new:298-331).
VoteSubmit ==
  /\ Len(voteReqs) < MaxVoteReqs
  /\ \E userId \in Users \cup {NoSession}, commentId \in 1..2,
        voteType \in VoteTypes \cup {"bogus"} :
       LET vr == [pc |-> "done", http |-> 0, userId |-> userId,
                  commentId |-> commentId, voteType |-> voteType,
                  existingVote |-> Null, existingType |-> ""]
           existing == getVoteByUserAndComment(userId, commentId)
       IN
       IF userId = NoSession
         THEN /\ commentId = 1 /\ voteType = "bogus"
              /\ voteReqs' = Append(voteReqs, [vr EXCEPT !.http = 401])
       ELSE IF voteType \notin VoteTypes
         THEN /\ commentId = 1 /\ userId = (CHOOSE u \in Users : TRUE)
              /\ voteReqs' = Append(voteReqs, [vr EXCEPT !.http = 400])
       ELSE IF commentId \notin DOMAIN comments
         THEN /\ userId = (CHOOSE u \in Users : TRUE) /\ voteType = "upvote"
              /\ voteReqs' = Append(voteReqs, [vr EXCEPT !.http = 404])
       ELSE voteReqs' = Append(voteReqs,
              [vr EXCEPT !.pc = "writing", !.existingVote = existing,
                         !.existingType = IF existing = Null THEN ""
                                          ELSE votes[existing].voteType])
  /\ UNCHANGED <<storeVars, chromaVars, forumVars, chatVars, docVars,
                 queries, prompts, slack, gets, votes, voteIdCounter>>

\* routes.ts:480-508  the vote found is deleted when it has the same type,
\* updated when it has the other type, and a vote is created when none was
\* found; the handler then awaits updateCommentVoteCounts
VoteWrite(v) ==
  /\ voteReqs[v].pc = "writing"
  /\ IF voteReqs[v].existingVote # Null
       THEN /\ votes' = IF voteReqs[v].existingType = voteReqs[v].voteType
                          THEN deleteVote(voteReqs[v].existingVote)
                          ELSE updateVote(voteReqs[v].existingVote,
                                          voteReqs[v].voteType)
            /\ voteReqs' = [voteReqs EXCEPT ![v].pc = "counting",
                                            ![v].http = 200]
            /\ UNCHANGED voteIdCounter
       ELSE /\ votes' = createVote([commentId |-> voteReqs[v].commentId,
                                    userId |-> voteReqs[v].userId,
                                    voteType |-> voteReqs[v].voteType])
            /\ voteIdCounter' = voteIdCounter + 1
            /\ voteReqs' = [voteReqs EXCEPT ![v].pc = "counting",
                                            ![v].http = 201]
  /\ UNCHANGED <<storeVars, chromaVars, forumVars, chatVars, docVars,
                 queries, prompts, slack, gets>>

\* routes.ts:485-508  updateCommentVoteCounts, then the answer (200 for a
\* removed or changed vote, 201 for an added one)
VoteCount(v) ==
  /\ voteReqs[v].pc = "counting"
  /\ comments' = updateCommentVoteCounts(voteReqs[v].commentId)
  /\ voteReqs' = [voteReqs EXCEPT ![v].pc = "done"]
  /\ UNCHANGED <<posts, postIdCounter, commentIdCounter, aiChats,
                 aiChatIdCounter, aiChatMessages, aiChatMessageIdCounter,
                 documents, documentIdCounter, chromaVars, forumVars,
                 chatVars, docVars, queries, prompts, slack, gets, votes,
                 voteIdCounter>>

\* the comment vote route
Votes ==
  \/ VoteSubmit
  \/ \E v \in 1..Len(voteReqs) : VoteWrite(v)
  \/ \E v \in 1..Len(voteReqs) : VoteCount(v)

\* ============================================== POST /api/documents
\* chromadb.ts addDocument: collection.add on the collection of category
addDocument(docId, content, metadata, category) ==
  [index EXCEPT ![COLLECTION_NAMES[category]] =
     @ \cup {[id |-> docId, content |-> content, name |-> metadata.name,
              docId |-> metadata.id, category |-> metadata.category]}]

\* the route answering only once the ingestion has ended
UploadRespondDeferred(up, document) == up

\* routes.ts:626  res.status(201).json(document): the response carries the
\* record as createDocument returned it
UploadRespond(up, document) ==
  [up EXCEPT !.http = 201, !.body = document.status]

\* routes.ts:576-626 and chromadb.ts:124-132  isAuthenticated, multer stores
\* the file, the body is validated, createDocument; processDocument is
\* called (it reads the file and draws a fresh docId before its first await)
\* and the route answers 201 with the document as created
UploadSubmit ==
  /\ Len(uploads) + Len(deletes) + Len(queries) < MaxDocReqs
  /\ \E userId \in Users \cup {NoSession},
        category \in InputCategories \cup {BadCategory},
        name \in DocNames, text \in DocTexts :
       LET path == Len(uploads) + 1
           up == [pc |-> "done", http |-> 0, userId |-> userId,
                  category |-> category, name |-> name, text |-> text,
                  path |-> path, docId |-> Null, embeddingId |-> Null,
                  body |-> ""]
       IN
       IF userId = NoSession
         THEN /\ category = BadCategory /\ name = << >>
              /\ uploads' = Append(uploads, [up EXCEPT !.http = 401])
              /\ UNCHANGED <<documents, documentIdCounter, files, docIdCounter>>
       ELSE IF name = << >> \/ category \notin forumCategoryEnum
         THEN /\ userId = CHOOSE u \in Users : TRUE
              /\ name = << >> \/ category = BadCategory
              /\ uploads' = Append(uploads, [up EXCEPT !.http = 400])
              /\ files' = files \cup {path}
              /\ UNCHANGED <<documents, documentIdCounter, docIdCounter>>
       ELSE /\ documents' = createDocument([name |-> name, category |-> category,
                                            filePath |-> path,
                                            uploadedById |-> userId])
            /\ documentIdCounter' = documentIdCounter + 1
            /\ files' = files \cup {path}
            /\ docIdCounter' = docIdCounter + 1
            /\ uploads' = Append(uploads,
                 UploadRespond([up EXCEPT !.pc = "adding",
                                          !.docId = documentIdCounter,
                                          !.embeddingId = docIdCounter],
                               documents'[documentIdCounter]))
  /\ UNCHANGED <<posts, postIdCounter, comments, commentIdCounter, aiChats,
                 aiChatIdCounter, aiChatMessages, aiChatMessageIdCounter,
                 chromaVars, forumVars, chatVars, deletes, queries,
                 routeVars>>

\* chromadb.ts:98-106  getCollection and collection.add: the entry is
\* registered, or the call throws and processDocument rejects
IngestAdd(u) ==
  /\ uploads[u].pc = "adding"
  /\ \E up \in BOOLEAN :
       IF getCollection(uploads[u].category, up).ok
         THEN /\ index' = addDocument(uploads[u].embeddingId, uploads[u].text,
                             [id |-> uploads[u].docId, name |-> uploads[u].name,
                              category |-> uploads[u].category],
                             uploads[u].category)
              /\ uploads' = [uploads EXCEPT ![u].pc = "added"]
         ELSE /\ uploads' = [uploads EXCEPT ![u].pc = "rejected"]
              /\ UNCHANGED index
  /\ UNCHANGED <<storeVars, collections, forumVars, chatVars,
                 docIdCounter, deletes, files, queries,
                 routeVars>>

\* chromadb.ts:98-106  the call to the vector store never returns (the code
\* sets no timeout on it): processDocument stays pending and neither
\* callback of the route runs.  The server may or may not have registered
\* the entry.
IngestHang(u) ==
  /\ uploads[u].pc = "adding"
  /\ \E registered \in BOOLEAN :
       IF registered /\ getCollection(uploads[u].category, TRUE).ok
         THEN index' = addDocument(uploads[u].embeddingId, uploads[u].text,
                          [id |-> uploads[u].docId, name |-> uploads[u].name,
                           category |-> uploads[u].category],
                          uploads[u].category)
         ELSE /\ ~registered
              /\ UNCHANGED index
  /\ uploads' = [uploads EXCEPT ![u].pc = "addHung"]
  /\ UNCHANGED <<storeVars, collections, forumVars, chatVars,
                 docIdCounter, deletes, files, queries,
                 routeVars>>

\* routes.ts:612-618  .then: updateDocument(processed, embeddingId)
IngestThen(u) ==
  /\ uploads[u].pc = "added"
  /\ documents' = updateDocument(uploads[u].docId, "processed",
                                 uploads[u].embeddingId)
  /\ uploads' = [uploads EXCEPT ![u].pc = "processed"]
  /\ UNCHANGED <<posts, postIdCounter, comments, commentIdCounter, aiChats,
                 aiChatIdCounter, aiChatMessages, aiChatMessageIdCounter,
                 documentIdCounter, chromaVars, forumVars, chatVars,
                 docIdCounter, deletes, files, queries,
                 routeVars>>

\* routes.ts:619-624  .catch: updateDocument(failed)
IngestCatch(u) ==
  /\ uploads[u].pc = "rejected"
  /\ documents' = updateDocumentStatus(uploads[u].docId, "failed")
  /\ uploads' = [uploads EXCEPT ![u].pc = "failed"]
  /\ UNCHANGED <<posts, postIdCounter, comments, commentIdCounter, aiChats,
                 aiChatIdCounter, aiChatMessages, aiChatMessageIdCounter,
                 documentIdCounter, chromaVars, forumVars, chatVars,
                 docIdCounter, deletes, files, queries,
                 routeVars>>

\* ==================================== DELETE /api/documents/:documentId
NoDocument == [name |-> << >>, category |-> "", filePath |-> 0,
               uploadedById |-> 0, status |-> "", embeddingId |-> Null]

\* routes.ts:651-680  isAuthenticated, getDocument, 404 / 403, unlink the
\* file, then either the call to the vector store (processed documents) or
\* storage.deleteDocument and the answer
DeleteSubmit ==
  /\ Len(uploads) + Len(deletes) + Len(queries) < MaxDocReqs
  /\ \E userId \in Users \cup {NoSession}, documentId \in 1..documentIdCounter :
       LET found == documentId \in DOMAIN documents
           document == IF found THEN documents[documentId] ELSE NoDocument
           del == [pc |-> "done", http |-> 0, userId |-> userId,
                   documentId |-> documentId, document |-> document]
       IN
       IF userId = NoSession
         THEN /\ documentId = 1
              /\ deletes' = Append(deletes,
                   [del EXCEPT !.http = 401, !.document = NoDocument])
              /\ UNCHANGED <<files, documents>>
       ELSE IF ~found
         THEN /\ deletes' = Append(deletes, [del EXCEPT !.http = 404])
              /\ UNCHANGED <<files, documents>>
       ELSE IF document.uploadedById # userId
         THEN /\ deletes' = Append(deletes, [del EXCEPT !.http = 403])
              /\ UNCHANGED <<files, documents>>
       ELSE /\ files' = files \ {document.filePath}
            /\ IF document.status = "processed" /\ document.embeddingId # Null
                 THEN /\ deletes' = Append(deletes, [del EXCEPT !.pc = "deleting"])
                      /\ UNCHANGED documents
                 ELSE /\ documents' = MapDelete(documents, documentId)
                      /\ deletes' = Append(deletes, [del EXCEPT !.http = 200])
  /\ UNCHANGED <<posts, postIdCounter, comments, commentIdCounter, aiChats,
                 aiChatIdCounter, aiChatMessages, aiChatMessageIdCounter,
                 documentIdCounter, chromaVars, forumVars, chatVars,
                 uploads, docIdCounter, queries,
                 routeVars>>

\* deleteDocument leaving the entry in the collection
deleteDocumentKept(docId, category) == index

\* chromadb.ts deleteDocument: collection.delete({ids: [docId]}) on the
\* collection of category
deleteDocument(docId, category) ==
  [index EXCEPT ![COLLECTION_NAMES[category]] = {e \in @ : e.id # docId}]

\* chromadb.ts:209-217  getCollection and collection.delete: the entry is
\* removed, or the call throws and the route answers 500
DeleteIndex(d) ==
  /\ deletes[d].pc = "deleting"
  /\ \E up \in BOOLEAN :
       LET c == getCollection(deletes[d].document.category, up) IN
       IF c.ok
         THEN /\ index' = deleteDocument(deletes[d].document.embeddingId,
                                         deletes[d].document.category)
              /\ deletes' = [deletes EXCEPT ![d].pc = "unindexed"]
         ELSE /\ deletes' = [deletes EXCEPT ![d].pc = "done", ![d].http = 500]
              /\ UNCHANGED index
  /\ UNCHANGED <<storeVars, collections, forumVars, chatVars,
                 uploads, docIdCounter, files, queries,
                 routeVars>>

\* routes.ts:678-680  the vector store answered: storage.deleteDocument and
\* res.json({ message: "Document deleted successfully" })
DeleteRecord(d) ==
  /\ deletes[d].pc = "unindexed"
  /\ documents' = MapDelete(documents, deletes[d].documentId)
  /\ deletes' = [deletes EXCEPT ![d].pc = "done", ![d].http = 200]
  /\ UNCHANGED <<posts, postIdCounter, comments, commentIdCounter, aiChats,
                 aiChatIdCounter, aiChatMessages, aiChatMessageIdCounter,
                 documentIdCounter, chromaVars, forumVars, chatVars,
                 uploads, docIdCounter, files, queries,
                 routeVars>>

\* ============================================ a call of the retriever
\* the documents the DELETE route has answered "Document deleted
\* successfully" for
DeletedDocuments ==
  {deletes[d].documentId : d \in {x \in 1..Len(deletes) : deletes[x].http = 200}}

\* getContextForQuery(query, category) called on its own, for any category
\* string; the record keeps what the caller observed
QueryContext ==
  /\ Len(uploads) + Len(deletes) + Len(queries) < MaxDocReqs
  /\ \E category \in InputCategories \cup {BadCategory}, up \in BOOLEAN :
       \E ranking \in Rankings(category) :
         queries' = Append(queries,
           [category |-> category, up |-> up,
            indexed |-> category \in DOMAIN COLLECTION_NAMES
                          /\ COLLECTION_NAMES[category] \in collections,
            size |-> Len(ranking),
            deleted |-> DeletedDocuments,
            result |-> getContextForQuery(category, up, ranking)])
  /\ UNCHANGED <<storeVars, chromaVars, forumVars, chatVars,
                 docVars, routeVars>>

\* ================================================== POST /api/ai-chats
\* the requests the chat routes have taken so far: every created chat,
\* delivered frame and message read is one
ChatRequests == Len(deliveries) + Len(reads) + (aiChatIdCounter - 1)

\* routes.ts:519-531  a logged-in user opens a chat session for a category
CreateAiChat ==
  /\ aiChatIdCounter <= MaxChats
  /\ ChatRequests < MaxChatReqs
  /\ \E in \in {ChatInputs[((aiChatIdCounter - 1) % Len(ChatInputs)) + 1]} :
       aiChats' = createAiChat([userId |-> in[1], category |-> in[2]])
  /\ aiChatIdCounter' = aiChatIdCounter + 1
  /\ UNCHANGED <<posts, postIdCounter, comments, commentIdCounter,
                 aiChatMessages, aiChatMessageIdCounter, documents,
                 documentIdCounter, chromaVars, forumVars, chatVars,
                 docVars, queries,
                 routeVars>>

\* ============================================ wss.on('connection') handler
\* the content of the n-th distinct message the clients send
FreshContents == <<<<"m1">>, <<"m2">>, <<"m3">>, <<"m4">>, <<"m5">>>>

NoChat == [found |-> FALSE, userId |-> 0, category |-> ""]

\* routes.ts:116-119  previousMessages.map(msg => ({role, content}))
chatHistory(previousMessages) ==
  [i \in 1..Len(previousMessages) |->
     [role |-> IF previousMessages[i].isUserMessage THEN "user" ELSE "assistant",
      content |-> previousMessages[i].content]]

\* the handler's catch block dropping the error instead of reporting it
wsSendErrorDropped(dl) == [dl EXCEPT !.pc = "done"]

\* routes.ts:151-157  catch: ws.send({type: 'error', message}) on the
\* socket of the delivery, which ends the handler
wsSendError(dl) ==
  [dl EXCEPT !.pc = "done",
             !.sent = Append(@, [type |-> "error", chatId |-> 0, id |-> Null,
                                 content |-> <<"error">>])]

\* the ai_response event carrying the id of the user's message instead of
\* the id of the message just saved
wsSendAiResponseStaleId(dl, chatId, id, content) ==
  [dl EXCEPT !.pc = "done",
             !.sent = Append(@, [type |-> "ai_response", chatId |-> chatId,
                                 id |-> dl.userMessageId, content |-> content])]

\* routes.ts:140-149  ws.send({type: 'ai_response', chatId, message}) on the
\* socket of the delivery, which ends the handler
wsSendAiResponse(dl, chatId, id, content) ==
  [dl EXCEPT !.pc = "done",
             !.sent = Append(@, [type |-> "ai_response", chatId |-> chatId,
                                 id |-> id, content |-> content])]

\* routes.ts:95-105  a frame arrives on the socket conn: JSON.parse (a frame
\* that is not JSON goes to the catch block), the guard on
\* type/userId/chatId/content (a frame that fails it, modelled by a missing
\* userId, is dropped without an answer), createAiChatMessage for the
\* user's message.  The frame is a new message of the client, or the frame of an
\* earlier delivery arriving once more (origin names the first delivery).
ChatReceive ==
  /\ ChatRequests < MaxChatReqs
  /\ \E o \in 0..Len(deliveries), conn \in Users,
        userId \in Users \cup {NoSession}, chatId \in 1..MaxChats,
        frame \in {"chat_message", "notJson"} :
       LET d == Len(deliveries) + 1
           fresh == [pc |-> "done", frame |-> frame,
                     conn |-> conn, userId |-> userId,
                     chatId |-> chatId,
                     content |-> FreshContents[d], origin |-> d,
                     chat |-> NoChat, previousMessages |-> << >>,
                     userMessageId |-> Null, savedAiMessageId |-> Null,
                     ai |-> "none", calls |-> << >>, sent |-> << >>]
           dl == IF o = 0 THEN fresh
                 ELSE [fresh EXCEPT !.frame = deliveries[o].frame,
                                    !.conn = deliveries[o].conn,
                                    !.userId = deliveries[o].userId,
                                    !.chatId = deliveries[o].chatId,
                                    !.content = deliveries[o].content,
                                    !.origin = deliveries[o].origin]
       IN
       /\ o # 0 => (conn = deliveries[o].conn /\ userId = deliveries[o].userId
                    /\ chatId = deliveries[o].chatId)
       /\ userId \in {conn, NoSession}
       /\ o # 0 => frame = deliveries[o].frame
       /\ IF dl.frame = "notJson"
            THEN /\ o = 0 /\ chatId = 1 /\ conn = CHOOSE u \in Users : TRUE
                 /\ userId = NoSession
                 /\ deliveries' = Append(deliveries, wsSendError(dl))
                 /\ UNCHANGED <<aiChatMessages, aiChatMessageIdCounter>>
          ELSE IF dl.userId = NoSession
            THEN /\ o = 0 /\ chatId = 1 /\ conn = CHOOSE u \in Users : TRUE
                 /\ deliveries' = Append(deliveries, dl)
                 /\ UNCHANGED <<aiChatMessages, aiChatMessageIdCounter>>
            ELSE /\ aiChatMessages' =
                      createAiChatMessage([chatId |-> dl.chatId,
                                           content |-> dl.content,
                                           isUserMessage |-> TRUE])
                 /\ aiChatMessageIdCounter' = aiChatMessageIdCounter + 1
                 /\ deliveries' = Append(deliveries,
                      [dl EXCEPT !.pc = "saved",
                                 !.userMessageId = aiChatMessageIdCounter])
  /\ UNCHANGED <<posts, postIdCounter, comments, commentIdCounter, aiChats,
                 aiChatIdCounter, documents, documentIdCounter, chromaVars,
                 forumVars, reads, docVars, queries,
                 routeVars>>

\* routes.ts:108-122  storage.getAiChat ("Chat not found" goes to the catch
\* block), storage.getAiChatMessages, then the call of
\* getContextForQuery(data.content, chat.category)
ChatReadHistory(d) ==
  /\ deliveries[d].pc = "saved"
  /\ LET chatId == deliveries[d].chatId IN
     IF chatId \notin DOMAIN aiChats
       THEN deliveries' = [deliveries EXCEPT ![d] = wsSendError(@)]
       ELSE deliveries' = [deliveries EXCEPT
              ![d].pc = "retrieving",
              ![d].chat = [found |-> TRUE,
                           userId |-> aiChats[chatId].userId,
                           category |-> aiChats[chatId].category],
              ![d].previousMessages = getAiChatMessages(chatId)]
  /\ UNCHANGED <<storeVars, chromaVars, forumVars, reads, docVars, queries,
                 routeVars>>

\* routes.ts:122-130  getContextForQuery returns and
\* generateForumAIResponse(data.content, chatHistory, chat.category,
\* contextualData) is called
ChatRetrieveReturn(d) ==
  /\ deliveries[d].pc = "retrieving"
  /\ \E up \in BOOLEAN, ranking \in Rankings(deliveries[d].chat.category) :
       LET c == getContextForQuery(deliveries[d].chat.category, up, ranking) IN
       IF c.threw
         THEN deliveries' = [deliveries EXCEPT ![d] = wsSendError(@)]
         ELSE deliveries' = [deliveries EXCEPT
                ![d].pc = "generating",
                ![d].calls = Append(@,
                   generateForumAIResponse(deliveries[d].content,
                      chatHistory(deliveries[d].previousMessages),
                      deliveries[d].chat.category, c.value))]
  /\ UNCHANGED <<storeVars, chromaVars, forumVars, reads, docVars, queries,
                 routeVars>>

\* routes.ts:133-149  the model answered: createAiChatMessage stores the
\* assistant's message and it is pushed on the socket the frame came from
ChatGenOk(d) ==
  /\ deliveries[d].pc = "generating"
  /\ \E response \in UpstreamResponses :
       LET aiResponse == generateClaudeResponse(response) IN
       /\ ~aiResponse.threw
       /\ aiChatMessages' =
            createAiChatMessage([chatId |-> deliveries[d].chatId,
                                 content |-> aiResponse.value,
                                 isUserMessage |-> FALSE])
       /\ deliveries' = [deliveries EXCEPT ![d] =
            wsSendAiResponse([@ EXCEPT !.ai = "ok",
                                       !.savedAiMessageId = aiChatMessageIdCounter],
                             deliveries[d].chatId, aiChatMessageIdCounter,
                             aiResponse.value)]
  /\ aiChatMessageIdCounter' = aiChatMessageIdCounter + 1
  /\ UNCHANGED <<posts, postIdCounter, comments, commentIdCounter, aiChats,
                 aiChatIdCounter, documents, documentIdCounter, chromaVars,
                 forumVars, reads, docVars, queries,
                 routeVars>>

\* routes.ts:151-157  the model call threw: the catch block reports it
ChatGenFail(d) ==
  /\ deliveries[d].pc = "generating"
  /\ \E response \in UpstreamResponses : generateClaudeResponse(response).threw
  /\ deliveries' = [deliveries EXCEPT ![d] = wsSendError([@ EXCEPT !.ai = "failed"])]
  /\ UNCHANGED <<storeVars, chromaVars, forumVars, reads, docVars, queries,
                 routeVars>>

\* routes.ts:122  the call of getContextForQuery never returns: the handler
\* stays suspended
ChatRetrieveHang(d) ==
  /\ deliveries[d].pc = "retrieving"
  /\ deliveries' = [deliveries EXCEPT ![d].pc = "retrievalHung"]
  /\ UNCHANGED <<storeVars, chromaVars, forumVars, reads, docVars, queries,
                 routeVars>>

\* routes.ts:125 and awsBedrock bedrockClient.send: the model call never
\* returns: the handler stays suspended
ChatGenHang(d) ==
  /\ deliveries[d].pc = "generating"
  /\ deliveries' = [deliveries EXCEPT ![d].pc = "generationHung"]
  /\ UNCHANGED <<storeVars, chromaVars, forumVars, reads, docVars, queries,
                 routeVars>>

\* ===================================== GET /api/ai-chats/:chatId/messages
\* routes.ts:552-569  isAuthenticated, getAiChat, 404 / 403, else the chat's
\* messages are returned
ReadMessages ==
  /\ ChatRequests < MaxChatReqs
  /\ \E userId \in Users, chatId \in 1..MaxChats :
       LET rd == [http |-> 0, userId |-> userId, chatId |-> chatId,
                  messages |-> {}]
       IN
       reads' = Append(reads,
         IF chatId \notin DOMAIN aiChats THEN [rd EXCEPT !.http = 404]
         ELSE IF aiChats[chatId].userId # userId THEN [rd EXCEPT !.http = 403]
         ELSE [rd EXCEPT !.http = 200,
                         !.messages = {m.id : m \in Range(getAiChatMessages(chatId))}])
  /\ UNCHANGED <<storeVars, chromaVars, forumVars, deliveries, docVars, queries,
                 routeVars>>

\* ============================================== POST /api/slack/webhook
BotMention == "@X-AI-Forum"

\* slack.ts isBotMentioned: text.includes("@X-AI-Forum")
isBotMentioned(text) == BotMention \in Range(text)

\* slack.ts extractQuery: the text without the mentions
extractQuery(text) == SelectSeq(text, LAMBDA t : t # BotMention)

\* slack.ts:74-83  the category is guessed from the words of the channel
\* name, general when there is none or none matches
slackForumCategory(channel_name) ==
  IF channel_name = Undefined THEN "general"
  ELSE IF Range(channel_name) \cap {"tech", "dev", "engineering"} # {}
    THEN "technical"
  ELSE IF Range(channel_name) \cap {"idea", "product", "feature"} # {}
    THEN "ideas"
  ELSE IF Range(channel_name) \cap {"hr", "people", "onboarding"} # {}
    THEN "hr"
  ELSE "general"

\* slack.ts:69  the notice posted before the generation
ProcessingNotice == <<"Processing your query...">>

\* the events Slack users and other applications cause: an event that is
\* not a message, a message of another bot that mentions the bot, a message
\* without text (an edit or a file share), a message that does not mention
\* the bot, and messages that mention it in two channels
UserEvents ==
  {[type |-> "reaction_added", bot |-> FALSE, text |-> Undefined,
    channel_name |-> Undefined],
   [type |-> "message", bot |-> TRUE, text |-> <<BotMention, "status">>,
    channel_name |-> Undefined],
   [type |-> "message", bot |-> FALSE, text |-> Undefined,
    channel_name |-> Undefined],
   [type |-> "message", bot |-> FALSE, text |-> <<"hello">>,
    channel_name |-> Undefined],
   [type |-> "message", bot |-> FALSE, text |-> <<BotMention, "vpn?">>,
    channel_name |-> Undefined],
   [type |-> "message", bot |-> FALSE, text |-> <<BotMention, "vpn?">>,
    channel_name |-> <<"dev", "help">>]}

\* the events Slack sends for the messages the bridge itself has posted:
\* they carry the bot_id of the bridge
EchoEvents ==
  UNION {{[type |-> "message", bot |-> TRUE, text |-> t,
           channel_name |-> slack[h].event.channel_name] :
            t \in Range(slack[h].posted)} : h \in 1..Len(slack)}

\* the answers of the provider to a call of the bridge: those of
\* UpstreamResponses and a text that itself mentions the bot
SlackUpstreamResponses ==
  UpstreamResponses \cup {[kind |-> "text", text |-> <<BotMention, "reply">>]}

\* routes.ts:687-714 and slack.ts:60-72  the webhook: the challenge is
\* echoed; a message without bot_id whose text mentions the bot is answered
\* 200 and handed to handleSlackEvent, which checks the event again and
\* posts the notice; isBotMentioned of a missing text throws and the catch
\* answers 500; every other event is answered 200
SlackWebhook ==
  /\ Len(slack) < MaxSlackReqs
  /\ \E challenge \in BOOLEAN, event \in UserEvents \cup EchoEvents :
       LET h == [pc |-> "done", http |-> 200, challenge |-> challenge,
                 event |-> event, triggered |-> FALSE, calls |-> << >>,
                 reply |-> << >>, posted |-> << >>]
       IN
       IF challenge
         THEN /\ event = CHOOSE e \in UserEvents : e.type # "message"
              /\ slack' = Append(slack, h)
       ELSE IF event.type = "message" /\ ~event.bot
         THEN IF event.text = Undefined
                THEN slack' = Append(slack, [h EXCEPT !.http = 500])
              ELSE IF isBotMentioned(event.text)
                THEN slack' = Append(slack, [h EXCEPT !.pc = "notifying"])
              ELSE slack' = Append(slack, h)
       ELSE slack' = Append(slack, h)
  /\ UNCHANGED <<storeVars, chromaVars, forumVars, chatVars, docVars,
                 queries, prompts, gets, voteVars>>

\* slack.ts:17-34, 69-87  sendSlackMessage for the notice returns, and
\* generateAIResponse(query, [], forumCategory) is called, which calls
\* getContextForQuery (routes.ts:704-707); or it throws (no token, or the
\* Slack API rejects the call) and the catch of handleSlackEvent logs
SlackNoticeReturn(h) ==
  /\ slack[h].pc = "notifying"
  /\ \E ok \in BOOLEAN :
       IF ok
         THEN slack' = [slack EXCEPT
                ![h].pc = "retrieving", ![h].triggered = TRUE,
                ![h].posted = Append(@, ProcessingNotice)]
         ELSE slack' = [slack EXCEPT ![h].pc = "done"]
  /\ UNCHANGED <<storeVars, chromaVars, forumVars, chatVars, docVars,
                 queries, prompts, gets, voteVars>>

\* routes.ts:704-707  getContextForQuery returns and
\* generateForumAIResponse(query, chatHistory, forumCategory,
\* contextualData) is called
SlackRetrieveReturn(h) ==
  /\ slack[h].pc = "retrieving"
  /\ LET forumCategory == slackForumCategory(slack[h].event.channel_name) IN
     \E up \in BOOLEAN, ranking \in Rankings(forumCategory) :
       slack' = [slack EXCEPT
         ![h].pc = "generating",
         ![h].calls = Append(@,
            generateForumAIResponse(extractQuery(slack[h].event.text), << >>,
               forumCategory,
               getContextForQuery(forumCategory, up, ranking).value))]
  /\ UNCHANGED <<storeVars, chromaVars, forumVars, chatVars, docVars,
                 queries, prompts, gets, voteVars>>

\* slack.ts:87-94  the model answered and sendSlackMessage is called with
\* the response, or the model call threw and the catch logs
SlackGenReturn(h) ==
  /\ slack[h].pc = "generating"
  /\ \E response \in SlackUpstreamResponses :
       LET aiResponse == generateClaudeResponse(response) IN
       IF aiResponse.threw
         THEN slack' = [slack EXCEPT ![h].pc = "done"]
         ELSE slack' = [slack EXCEPT ![h].pc = "replying",
                                     ![h].reply = aiResponse.value]
  /\ UNCHANGED <<storeVars, chromaVars, forumVars, chatVars, docVars,
                 queries, prompts, gets, voteVars>>

\* slack.ts:17-34, 90  sendSlackMessage for the response returns or throws
\* (a response that is not a string is rejected by the Slack API)
SlackReplyReturn(h) ==
  /\ slack[h].pc = "replying"
  /\ \E ok \in BOOLEAN :
       IF ok /\ slack[h].reply # Undefined
         THEN slack' = [slack EXCEPT ![h].pc = "done",
                                     ![h].posted = Append(@, slack[h].reply)]
         ELSE /\ ~ok
              /\ slack' = [slack EXCEPT ![h].pc = "done"]
  /\ UNCHANGED <<storeVars, chromaVars, forumVars, chatVars, docVars,
                 queries, prompts, gets, voteVars>>

\* the Slack bridge
Slack ==
  \/ SlackWebhook
  \/ \E h \in 1..Len(slack) : SlackNoticeReturn(h)
  \/ \E h \in 1..Len(slack) : SlackRetrieveReturn(h)
  \/ \E h \in 1..Len(slack) : SlackGenReturn(h)
  \/ \E h \in 1..Len(slack) : SlackReplyReturn(h)

\* ========================================================= specifications
AllCollections == {COLLECTION_NAMES[c] : c \in DOMAIN COLLECTION_NAMES}

\* chromadb.ts:42-65  initializeCollections creates the collections in the
\* order of COLLECTION_NAMES and stops at the first error: any prefix of
\* them may exist once the server runs
CollectionPrefixes ==
  {{},
   {COLLECTION_NAMES["technical"]},
   {COLLECTION_NAMES["technical"], COLLECTION_NAMES["ideas"]},
   {COLLECTION_NAMES["technical"], COLLECTION_NAMES["ideas"],
    COLLECTION_NAMES["general"]},
   AllCollections}

\* the prefixes the model starts from: every collection exists, or only the
\* first one does (for the categories of InputCategories the other partial
\* prefixes behave like this one, and the empty one like a server that is
\* down at every call)
StartCollections ==
  {cs \in CollectionPrefixes : Cardinality(cs) \in {1, Cardinality(AllCollections)}}

\* the state after MemStorage's constructor and the start of the server
Init ==
  /\ posts = EmptyMap /\ postIdCounter = 1
  /\ comments = EmptyMap /\ commentIdCounter = 1
  /\ aiChats = EmptyMap /\ aiChatIdCounter = 1
  /\ aiChatMessages = EmptyMap /\ aiChatMessageIdCounter = 1
  /\ documents = EmptyMap /\ documentIdCounter = 1
  /\ collections \in StartCollections
  /\ index = [n \in AllCollections |-> {}]
  /\ files = {}
  /\ postReqs = << >>
  /\ commentReqs = << >>
  /\ deliveries = << >>
  /\ reads = << >>
  /\ uploads = << >>
  /\ docIdCounter = 1
  /\ deletes = << >>
  /\ queries = << >>
  /\ prompts = << >>
  /\ slack = << >>
  /\ gets = << >>
  /\ votes = EmptyMap /\ voteIdCounter = 1
  /\ voteReqs = << >>

\* document upload and background ingestion
Ingestion ==
  \/ UploadSubmit
  \/ \E u \in 1..Len(uploads) : IngestAdd(u)
  \/ \E u \in 1..Len(uploads) : IngestThen(u)
  \/ \E u \in 1..Len(uploads) : IngestCatch(u)

\* document deletion
Deletion ==
  \/ DeleteSubmit
  \/ \E d \in 1..Len(deletes) : DeleteIndex(d)
  \/ \E d \in 1..Len(deletes) : DeleteRecord(d)

\* the forum-post route
Forum ==
  \/ PostSubmit
  \/ \E r \in 1..Len(postReqs) : PostRetrieveReturn(r)
  \/ \E r \in 1..Len(postReqs) : PostGenOk(r)
  \/ \E r \in 1..Len(postReqs) : PostGenFail(r)
  \/ CommentSubmit

\* the chat sessions, the WebSocket handler and the message read route
Chat ==
  \/ CreateAiChat
  \/ ChatReceive
  \/ \E d \in 1..Len(deliveries) : ChatReadHistory(d)
  \/ \E d \in 1..Len(deliveries) : ChatRetrieveReturn(d)
  \/ \E d \in 1..Len(deliveries) : ChatGenOk(d)
  \/ \E d \in 1..Len(deliveries) : ChatGenFail(d)
  \/ ReadMessages

\* a state of the document routes: user 2 has uploaded one technical
\* document, its ingestion has finished, every collection exists
InitIndexed ==
  /\ posts = EmptyMap /\ postIdCounter = 1
  /\ comments = EmptyMap /\ commentIdCounter = 1
  /\ aiChats = EmptyMap /\ aiChatIdCounter = 1
  /\ aiChatMessages = EmptyMap /\ aiChatMessageIdCounter = 1
  /\ documents = MapSet(EmptyMap, 1,
        [name |-> <<"Runbook">>, category |-> "technical", filePath |-> 1,
         uploadedById |-> 2, status |-> "processed", embeddingId |-> 1])
  /\ documentIdCounter = 2
  /\ collections = AllCollections
  /\ index = [n \in AllCollections |->
                IF n = COLLECTION_NAMES["technical"]
                  THEN {[id |-> 1, content |-> <<"Use openconnect with profile X">>,
                         name |-> <<"Runbook">>, docId |-> 1,
                         category |-> "technical"]}
                  ELSE {}]
  /\ files = {1}
  /\ postReqs = << >>
  /\ commentReqs = << >>
  /\ deliveries = << >>
  /\ reads = << >>
  /\ uploads = <<[pc |-> "processed", http |-> 201, userId |-> 2,
                  category |-> "technical", name |-> <<"Runbook">>,
                  text |-> <<"Use openconnect with profile X">>,
                  path |-> 1, docId |-> 1, embeddingId |-> 1,
                  body |-> "processing"]>>
  /\ docIdCounter = 2
  /\ deletes = << >>
  /\ queries = << >>
  /\ prompts = << >>
  /\ slack = << >>
  /\ gets = << >>
  /\ votes = EmptyMap /\ voteIdCounter = 1
  /\ voteReqs = << >>

\* a state of the forum-post route: user 2 has posted one technical
\* question, the model has answered it and the AI Answer is stored
InitAnswered ==
  /\ posts = MapSet(EmptyMap, 1,
        [title |-> <<"VPN setup">>,
         content |-> <<"How do I configure VPN on Linux?">>,
         userId |-> 2, category |-> "technical", views |-> 0,
         isAnswered |-> FALSE, hasAiAnswer |-> TRUE])
  /\ postIdCounter = 2
  /\ comments = MapSet(EmptyMap, 1,
        [content |-> <<"reply">>, postId |-> 1, userId |-> SystemUserId,
         isAiGenerated |-> TRUE, upvotes |-> 0, downvotes |-> 0])
  /\ commentIdCounter = 2
  /\ aiChats = EmptyMap /\ aiChatIdCounter = 1
  /\ aiChatMessages = EmptyMap /\ aiChatMessageIdCounter = 1
  /\ documents = EmptyMap /\ documentIdCounter = 1
  /\ collections = AllCollections
  /\ index = [n \in AllCollections |-> {}]
  /\ files = {}
  /\ postReqs =
       <<[pc |-> "done", http |-> 201, userId |-> 2,
          category |-> "technical", title |-> <<"VPN setup">>, postId |-> 1,
          ai |-> "ok",
          calls |-> <<generateForumAIResponse(
                        <<"How do I configure VPN on Linux?">>,
                        <<[role |-> "user",
                           content |-> <<"VPN setup", "\n",
                                         "How do I configure VPN on Linux?">>]>>,
                        "technical", << >>)>>,
          upstream |-> [kind |-> "text", text |-> <<"reply">>]]>>
  /\ commentReqs = << >>
  /\ deliveries = << >>
  /\ reads = << >>
  /\ uploads = << >>
  /\ docIdCounter = 1
  /\ deletes = << >>
  /\ queries = << >>
  /\ prompts = << >>
  /\ slack = << >>
  /\ gets = << >>
  /\ votes = EmptyMap /\ voteIdCounter = 1
  /\ voteReqs = << >>

\* InitAnswered is a state SpecForum reaches by one answered submission:
\* TLC finds this predicate violated as an invariant of SpecForum
InitAnsweredUnreachable == ~InitAnswered

\* InitIndexed is the state SpecDocs reaches by one upload: TLC finds this
\* predicate violated as an invariant of SpecDocs
InitIndexedUnreachable == ~InitIndexed

NextDocs == Ingestion \/ Deletion \/ QueryContext

NextForum == Forum

NextChat == Chat

\* the document routes with calls of the retriever
SpecDocs == Init /\ [][NextDocs]_vars

\* the document routes when a call to the vector store may never return
NextDocsHang == NextDocs \/ \E u \in 1..Len(uploads) : IngestHang(u)

SpecDocsHang == Init /\ [][NextDocsHang]_vars

\* the forum-post route, over an empty and over a populated index
SpecForum == (Init \/ InitIndexed) /\ [][NextForum]_vars

\* the chat handler, over a populated index
SpecChat == InitIndexed /\ [][NextChat]_vars

\* a run of the forum-post route or a run of the chat handler (the two share
\* no state but the index, which neither writes)
NextPipeline ==
  \/ (deliveries = << >> /\ reads = << >> /\ aiChats = EmptyMap /\ Forum)
  \/ (postReqs = << >> /\ commentReqs = << >> /\ Chat)

SpecPipeline == InitIndexed /\ [][NextPipeline]_vars

\* the same runs when a call to the vector store or to the model provider
\* may never return
NextPipelineHang ==
  \/ NextPipeline
  \/ \E r \in 1..Len(postReqs) : PostRetrieveHang(r)
  \/ \E r \in 1..Len(postReqs) : PostGenHang(r)
  \/ \E d \in 1..Len(deliveries) : ChatRetrieveHang(d)
  \/ \E d \in 1..Len(deliveries) : ChatGenHang(d)

SpecPipelineHang == InitIndexed /\ [][NextPipelineHang]_vars

\* the forum-post route when a write to the store may fail
NextForumStoreFail ==
  NextForum \/ \E r \in 1..Len(postReqs) : PostGenStoreFail(r)

SpecForumStoreFail == (Init \/ InitIndexed) /\ [][NextForumStoreFail]_vars

\* the forum-post and comment routes with reads of the posts
NextViews == Forum \/ Views

SpecViews == Init /\ [][NextViews]_vars

NextVotes == Votes

\* the comment vote route, over a stored AI Answer
SpecVotes == InitAnswered /\ [][NextVotes]_vars

NextGenerator == BuildSystemPrompt

NextSlack == Slack

\* the Slack bridge, over a populated index
SpecSlack == InitIndexed /\ [][NextSlack]_vars

\* calls of the two Response Generator implementations, with the contexts
\* of a populated index
SpecGenerator == InitIndexed /\ [][NextGenerator]_vars

\* ================================================================= claims
\* the AI step of a forum-post request has begun
PostAiStarted(r) ==
  \/ postReqs[r].pc \in {"retrieving", "generating", "retrievalHung",
                          "generationHung"}
  \/ postReqs[r].ai # "none"

\* the AI step of a chat delivery has begun
ChatAiStarted(d) ==
  \/ deliveries[d].pc \in {"retrieving", "generating", "retrievalHung",
                            "generationHung"}
  \/ deliveries[d].ai # "none"

\* the events of one kind a delivery has sent
SentOfType(d, type) ==
  {i \in 1..Len(deliveries[d].sent) : deliveries[d].sent[i].type = type}

\* the comments that comment requests created
RequestedComments ==
  {commentReqs[k].commentId : k \in 1..Len(commentReqs)} \ {Null}

\* the Answers of a Question that no comment request created
PipelineAnswers(postId) ==
  {c \in DOMAIN comments :
     comments[c].postId = postId /\ c \notin RequestedComments}

\* C1: a valid question submission whose model call fails is answered 201,
\* its Question is stored with hasAiAnswer = false, and the submission has
\* created no Answer for that Question.
C1_QuestionSurvivesGenerationFailure ==
  \A r \in 1..Len(postReqs) :
    postReqs[r].ai = "failed" =>
      /\ postReqs[r].http = 201
      /\ postReqs[r].postId \in DOMAIN posts
      /\ posts[postReqs[r].postId].hasAiAnswer = FALSE
      /\ PipelineAnswers(postReqs[r].postId) = {}

C1_Witness ==
  \E r \in 1..Len(postReqs) :
    /\ postReqs[r].ai = "failed" /\ Len(postReqs[r].calls) = 1
    /\ postReqs[r].pc = "done"
    /\ \E q \in 1..Len(postReqs) : postReqs[q].ai = "ok"

\* C2: on one chat session the model is called for a later frame only once
\* the handler of every earlier frame of that session has finished.
C2_SessionSerialised ==
  \A d1, d2 \in 1..Len(deliveries) :
    (d1 < d2 /\ deliveries[d1].chatId = deliveries[d2].chatId
       /\ deliveries[d1].userMessageId # Null
       /\ Len(deliveries[d2].calls) > 0)
      => deliveries[d1].pc = "done"

\* C3: the messages handed to the model are exactly the persisted turns of
\* the session, each once, the newest user turn last.
C3_HistoryIsPersistedTurns ==
  \A d \in 1..Len(deliveries) :
    \A i \in 1..Len(deliveries[d].calls) :
      deliveries[d].calls[i].messages = chatHistory(deliveries[d].previousMessages)

\* C4: the model is called at most once per submitted message, and a frame
\* that arrives a second time neither calls the model again nor stores a
\* second user message.
C4_Idempotent ==
  /\ \A d \in 1..Len(deliveries) : Len(deliveries[d].calls) <= 1
  /\ \A r \in 1..Len(postReqs) : Len(postReqs[r].calls) <= 1
  /\ \A d1, d2 \in 1..Len(deliveries) :
       (d1 < d2 /\ deliveries[d1].origin = deliveries[d2].origin)
         => /\ deliveries[d2].userMessageId = Null
            /\ deliveries[d2].calls = << >>

\* C5: when the model call fails for a chat message, the user's message
\* stays stored, no assistant message is stored for it, and the socket gets
\* exactly one error event and no ai_response for it.
C5_ChatGenerationFailure ==
  /\ \A d \in 1..Len(deliveries) :
       deliveries[d].ai = "failed" =>
         /\ deliveries[d].userMessageId \in DOMAIN aiChatMessages
         /\ aiChatMessages[deliveries[d].userMessageId] =
              [chatId |-> deliveries[d].chatId,
               content |-> deliveries[d].content, isUserMessage |-> TRUE]
         /\ deliveries[d].savedAiMessageId = Null
         /\ Cardinality(SentOfType(d, "error")) = 1
         /\ SentOfType(d, "ai_response") = {}
  /\ Cardinality({m \in DOMAIN aiChatMessages : ~aiChatMessages[m].isUserMessage})
       = Cardinality({d \in 1..Len(deliveries) : deliveries[d].ai = "ok"})

C5_Witness ==
  \E d \in 1..Len(deliveries) :
    /\ deliveries[d].ai = "failed" /\ deliveries[d].pc = "done"
    /\ Len(deliveries[d].calls) = 1

\* C6: getContextForQuery never throws, and it returns the empty string for
\* a category without documents, for a category without an index (a
\* category outside the fixed set included) and when the vector store is
\* unavailable.
C6_RetrieverNeverThrows ==
  \A i \in 1..Len(queries) :
    /\ ~queries[i].result.threw
    /\ (queries[i].size = 0 \/ ~queries[i].indexed \/ ~queries[i].up)
         => queries[i].result.value = << >>

C6_Witness ==
  /\ \E i \in 1..Len(queries) :
       /\ queries[i].size > 0 /\ queries[i].indexed /\ ~queries[i].up
       /\ queries[i].result.value = << >>
  /\ \E i \in 1..Len(queries) : queries[i].category = BadCategory

C8_CategoryPartition ==
  \A i \in 1..Len(queries) :
    \A id \in queries[i].result.ids :
      \E u \in 1..Len(uploads) :
        /\ uploads[u].embeddingId = id
        /\ uploads[u].category = queries[i].category
        /\ uploads[u].docId \notin queries[i].deleted

\* C9: a chat_message is stored in a session and answered only when the
\* user on the socket owns the session named by chatId, and the messages of
\* a session are returned by the read route only to its owner.
C9_OwnerOnly ==
  /\ \A d \in 1..Len(deliveries) :
       (deliveries[d].userMessageId # Null /\ deliveries[d].chat.found)
         => deliveries[d].chat.userId = deliveries[d].conn
  /\ \A d \in 1..Len(deliveries) :
       SentOfType(d, "ai_response") # {}
         => deliveries[d].chat.userId = deliveries[d].conn
  /\ \A i \in 1..Len(reads) :
       reads[i].http = 200 => aiChats[reads[i].chatId].userId = reads[i].userId

\* the status and embedding id of every Document Record agree, and a record
\* whose ingestion has ended shows its outcome
DocumentStatusConsistent ==
  \A id \in DOMAIN documents :
    /\ documents[id].status \in {"processing", "processed", "failed"}
    /\ documents[id].status = "processed" <=> documents[id].embeddingId # Null
    /\ \A u \in 1..Len(uploads) :
         uploads[u].docId = id =>
           /\ uploads[u].pc = "processed"
                => /\ documents[id].status = "processed"
                   /\ documents[id].embeddingId = uploads[u].embeddingId
           /\ uploads[u].pc = "failed"
                => /\ documents[id].status = "failed"
                   /\ documents[id].embeddingId = Null

\* one step of the Document Records: a new record is processing with a null
\* embedding id, processed and failed records do not change, and a record
\* that becomes processed carries an id its category's collection holds
DocumentStatusStep ==
  /\ \A id \in (DOMAIN documents') \ (DOMAIN documents) :
       documents'[id].status = "processing" /\ documents'[id].embeddingId = Null
  /\ \A id \in (DOMAIN documents') \cap (DOMAIN documents) :
       /\ documents[id].status \in {"processed", "failed"}
            => documents'[id] = documents[id]
       /\ (documents[id].status = "processing"
             /\ documents'[id].status = "processed")
            => \E e \in index'[COLLECTION_NAMES[documents'[id].category]] :
                  e.id = documents'[id].embeddingId /\ e.docId = id
       /\ documents'[id].status = "failed" => documents'[id].embeddingId = Null

\* C10: a Document Record is created as processing with embeddingId null;
\* it becomes processed with the id registered in the index, or failed with
\* embeddingId still null; status = processed exactly when embeddingId is
\* non-null; processed and failed records never change again.
C10_DocumentStatusLifecycle ==
  []DocumentStatusConsistent /\ [][DocumentStatusStep]_vars

C10_Witness ==
  /\ \E id \in DOMAIN documents :
       documents[id].status = "processed" /\ documents[id].embeddingId # Null
  /\ \E id \in DOMAIN documents : documents[id].status = "failed"

\* C11: every accepted upload has been answered 201 with the record in
\* status processing, in every state from its acceptance on: the answer is
\* there before the outcome of the ingestion is applied to the record, and
\* neither outcome changes it.
C11_UploadAnsweredBeforeIngestion ==
  \A u \in 1..Len(uploads) :
    uploads[u].docId # Null =>
      /\ uploads[u].http = 201
      /\ uploads[u].body = "processing"

C11_Witness ==
  /\ \E u \in 1..Len(uploads) :
       /\ uploads[u].pc = "failed" /\ uploads[u].http = 201
       /\ uploads[u].docId \in DOMAIN documents
       /\ documents[uploads[u].docId].status = "failed"
  /\ \E u \in 1..Len(uploads) :
       /\ uploads[u].pc = "processed" /\ uploads[u].http = 201
       /\ uploads[u].docId \in DOMAIN documents
       /\ documents[uploads[u].docId].status = "processed"

\* a step of the background ingestion of upload u
IngestStep(u) == IngestAdd(u) \/ IngestThen(u) \/ IngestCatch(u)

\* C12: a Document Record in status processing does not stay there for
\* ever: as long as it is processing, a step of its ingestion is still to
\* come.
C12_LeavesProcessing ==
  \A u \in 1..Len(uploads) :
    (uploads[u].docId \in DOMAIN documents
       /\ documents[uploads[u].docId].status = "processing")
      => ENABLED IngestStep(u)

\* C13: once the DELETE route has answered success for a Document Record
\* it found processed, the record is gone, its file is gone, no collection
\* holds its entry, and no query made after the answer returned it.
C13_DeleteProcessedRemovesAll ==
  \A d \in 1..Len(deletes) :
    (deletes[d].http = 200 /\ deletes[d].document.status = "processed") =>
      /\ deletes[d].documentId \notin DOMAIN documents
      /\ deletes[d].document.filePath \notin files
      /\ \A n \in DOMAIN index :
           \A e \in index[n] : e.id # deletes[d].document.embeddingId
      /\ \A i \in 1..Len(queries) :
           deletes[d].documentId \in queries[i].deleted
             => deletes[d].document.embeddingId \notin queries[i].result.ids

C13_Witness ==
  \E d \in 1..Len(deletes) :
    /\ deletes[d].http = 200 /\ deletes[d].document.status = "processed"
    /\ \E i \in 1..Len(queries) :
         /\ queries[i].category = deletes[d].document.category
         /\ queries[i].up /\ queries[i].indexed
         /\ deletes[d].documentId \in queries[i].deleted

\* a step of the handler of forum-post request r after its submission
PostStep(r) == PostRetrieveReturn(r) \/ PostGenOk(r) \/ PostGenFail(r)

\* a step of the handler of chat delivery d after its receipt
ChatStep(d) ==
  ChatReadHistory(d) \/ ChatRetrieveReturn(d) \/ ChatGenOk(d) \/ ChatGenFail(d)

\* C14: a handler whose Context Retriever call does not return still has a
\* step to take (it goes on to the generation), and every handler that has
\* ended after an accepted submission has called the model, whatever the
\* retriever answered.
C14_RetrievalNeverHangs ==
  /\ \A r \in 1..Len(postReqs) :
       /\ postReqs[r].pc = "retrievalHung" => ENABLED PostStep(r)
       /\ (postReqs[r].pc = "done" /\ postReqs[r].postId # NoPost)
            => Len(postReqs[r].calls) = 1
  /\ \A d \in 1..Len(deliveries) :
       /\ deliveries[d].pc = "retrievalHung" => ENABLED ChatStep(d)
       /\ (deliveries[d].pc = "done" /\ deliveries[d].chat.found)
            => Len(deliveries[d].calls) = 1

\* C15: a handler whose Response Generator call does not return still has
\* a step to take (it fails the AI step and surfaces the outcome).
C15_GenerationNeverHangs ==
  /\ \A r \in 1..Len(postReqs) :
       postReqs[r].pc = "generationHung" => ENABLED PostStep(r)
  /\ \A d \in 1..Len(deliveries) :
       deliveries[d].pc = "generationHung" => ENABLED ChatStep(d)

\* the upstream answers that carry no text
MalformedResponses ==
  {u \in UpstreamResponses : u.kind \in {"notJson", "noContent",
                                         "emptyContent", "noText"}}

\* C16: the Response Generator throws for every failed or malformed answer
\* of the provider: a request whose upstream answer was one of those ends
\* with the AI step failed and without an AI Answer, and no AI Answer and no
\* assistant Chat Message holds a content that is not a string.
C16_MalformedUpstreamFails ==
  /\ \A r \in 1..Len(postReqs) :
       (postReqs[r].upstream \in MalformedResponses
          \/ postReqs[r].upstream.kind = "error")
         => /\ postReqs[r].ai = "failed"
            /\ PipelineAnswers(postReqs[r].postId) = {}
  /\ \A c \in DOMAIN comments :
       comments[c].isAiGenerated => comments[c].content # Undefined
  /\ \A i \in DOMAIN aiChatMessages :
       ~aiChatMessages[i].isUserMessage => aiChatMessages[i].content # Undefined

\* C17: an invalid question submission (missing title or category outside
\* the fixed set) is answered 400, stores no Question and calls neither the
\* retriever nor the model; a live-channel frame that is not JSON or lacks a
\* required field gets exactly one error event, stores no Chat Message and
\* calls neither.
C17_MalformedInputRejected ==
  /\ \A r \in 1..Len(postReqs) :
       (postReqs[r].userId # NoSession
          /\ (postReqs[r].title = Undefined
                \/ postReqs[r].category \notin forumCategoryEnum))
         => /\ postReqs[r].http = 400
            /\ postReqs[r].postId = NoPost
            /\ postReqs[r].calls = << >>
  /\ Cardinality(DOMAIN posts)
       = Cardinality({r \in 1..Len(postReqs) : postReqs[r].postId # NoPost})
  /\ \A d \in 1..Len(deliveries) :
       (deliveries[d].frame = "notJson" \/ deliveries[d].userId = NoSession)
         => /\ Cardinality(SentOfType(d, "error")) = 1
            /\ deliveries[d].userMessageId = Null
            /\ deliveries[d].calls = << >>

\* the Questions the Orchestrator has produced an AI Answer for
AiAnsweredPosts ==
  {postReqs[r].postId : r \in {x \in 1..Len(postReqs) : postReqs[x].ai = "ok"}}

\* C19: the comment a human comment request creates is not AI-generated and
\* belongs to the session user, whatever the body said; every AI-generated
\* Answer belongs to a Question the Orchestrator answered and was created by
\* no comment request; a Question has hasAiAnswer exactly when the
\* Orchestrator answered it.
C19_AiAnswersOnlyFromOrchestrator ==
  /\ \A k \in 1..Len(commentReqs) :
       commentReqs[k].commentId # Null =>
         /\ ~comments[commentReqs[k].commentId].isAiGenerated
         /\ comments[commentReqs[k].commentId].userId = commentReqs[k].userId
  /\ \A c \in DOMAIN comments :
       comments[c].isAiGenerated =>
         /\ comments[c].postId \in AiAnsweredPosts
         /\ \A k \in 1..Len(commentReqs) : commentReqs[k].commentId # c
  /\ \A p \in DOMAIN posts : posts[p].hasAiAnswer <=> p \in AiAnsweredPosts

C19_Witness ==
  \E k \in 1..Len(commentReqs) :
    /\ commentReqs[k].http = 201 /\ commentReqs[k].claimsAi
    /\ commentReqs[k].commentId \in DOMAIN comments
    /\ ~posts[commentReqs[k].postId].hasAiAnswer
    /\ posts[commentReqs[k].postId].isAnswered

\* the strings the Context Retriever can return for a category
PossibleContexts(category) ==
  {getContextForQuery(category, up, ranking).value :
     up \in BOOLEAN, ranking \in Rankings(category)}

\* the AI-generated Answers of a Question
AiAnswers(postId) ==
  {c \in DOMAIN comments :
     comments[c].postId = postId /\ comments[c].isAiGenerated}

\* C18: a question submission whose generation succeeded has exactly one
\* AI-generated Answer; its content is what the Response Generator returned,
\* for the one call the request made, which was given the Question's
\* category and a Context Retriever result for that category; the Question
\* has hasAiAnswer = true.
C18_ForumSuccessPath ==
  \A r \in 1..Len(postReqs) :
    postReqs[r].ai = "ok" =>
      /\ Cardinality(AiAnswers(postReqs[r].postId)) = 1
      /\ \A c \in AiAnswers(postReqs[r].postId) :
           /\ comments[c].content = generateClaudeResponse(postReqs[r].upstream).value
           /\ comments[c].userId = SystemUserId
      /\ Len(postReqs[r].calls) = 1
      /\ postReqs[r].calls[1].category = posts[postReqs[r].postId].category
      /\ postReqs[r].calls[1].context
           \in PossibleContexts(posts[postReqs[r].postId].category)
      /\ posts[postReqs[r].postId].hasAiAnswer

C18_Witness ==
  \E r \in 1..Len(postReqs) :
    /\ postReqs[r].ai = "ok" /\ postReqs[r].upstream.kind = "text"
    /\ postReqs[r].calls[1].context # << >>
    /\ \E c \in DOMAIN comments :
         comments[c].postId = postReqs[r].postId /\ ~comments[c].isAiGenerated

\* C20: the messages of every model call of the chat handler start with a
\* user turn, alternate between user and assistant, and end with the user
\* turn of the message being answered.
C20_AlternatingTurns ==
  \A d \in 1..Len(deliveries) :
    \A i \in 1..Len(deliveries[d].calls) :
      LET ms == deliveries[d].calls[i].messages IN
      /\ ms # << >>
      /\ ms[1].role = "user"
      /\ ms[Len(ms)] = [role |-> "user", content |-> deliveries[d].content]
      /\ \A j \in 1..(Len(ms) - 1) : ms[j].role # ms[j + 1].role

\* the ids of the Chat Messages persisted for session chatId
SessionMessageIds(chatId) ==
  {i \in DOMAIN aiChatMessages : aiChatMessages[i].chatId = chatId}

\* the history a delivery holds is made of persisted messages of its own
\* session, in creation order, and the history part of its model call is
\* that history
HistoryOfOwnSession ==
  \A d \in 1..Len(deliveries) :
    LET pm == deliveries[d].previousMessages IN
    /\ \A i \in 1..Len(pm) :
         /\ pm[i].id \in SessionMessageIds(deliveries[d].chatId)
         /\ pm[i].content = aiChatMessages[pm[i].id].content
         /\ pm[i].isUserMessage = aiChatMessages[pm[i].id].isUserMessage
    /\ \A i, j \in 1..Len(pm) : i < j => pm[i].id < pm[j].id
    /\ \A k \in 1..Len(deliveries[d].calls) :
         LET ms == deliveries[d].calls[k].messages IN
         /\ Len(ms) = Len(pm) + 1
         /\ SubSeq(ms, 1, Len(pm)) = chatHistory(pm)

\* the step that reads the history of a delivery reads every message the
\* store holds for the session at that moment
HistoryReadStep ==
  \A d \in 1..Len(deliveries) :
    (deliveries[d].pc = "saved" /\ deliveries'[d].pc = "retrieving")
      => {deliveries'[d].previousMessages[i].id :
            i \in 1..Len(deliveries'[d].previousMessages)}
           = SessionMessageIds(deliveries[d].chatId)

\* C21: the history passed to the Response Generator for an event on
\* session S is read from the persisted store when the handler reads it and
\* consists only of the Chat Messages of S, in creation order; messages of
\* another session never appear in it.
C21_HistoryOfSessionOnly ==
  []HistoryOfOwnSession /\ [][HistoryReadStep]_vars

C21_Witness ==
  \E d \in 1..Len(deliveries) :
    /\ Len(deliveries[d].calls) = 1
    /\ \E i \in DOMAIN aiChatMessages :
         /\ aiChatMessages[i].chatId # deliveries[d].chatId
         /\ \E k \in 1..Len(deliveries[d].previousMessages) :
              i < deliveries[d].previousMessages[k].id

\* C22: every ai_response event a handler has pushed on its socket carries
\* the id and the content of an assistant Chat Message that is persisted in
\* the session of the inbound frame, and the chatId of that frame; the
\* handler pushes one such event at most, as its last act, and only for
\* the message it saved itself.
C22_PersistedBeforeDelivered ==
  \A d \in 1..Len(deliveries) :
    \A i \in SentOfType(d, "ai_response") :
      LET ev == deliveries[d].sent[i] IN
      /\ ev.id \in DOMAIN aiChatMessages
      /\ aiChatMessages[ev.id] =
           [chatId |-> deliveries[d].chatId, content |-> ev.content,
            isUserMessage |-> FALSE]
      /\ ev.id = deliveries[d].savedAiMessageId
      /\ ev.chatId = deliveries[d].chatId
      /\ Len(deliveries[d].sent) = 1
      /\ deliveries[d].pc = "done"

C22_Witness ==
  \E d \in 1..Len(deliveries) :
    /\ SentOfType(d, "ai_response") # {}
    /\ deliveries[d].savedAiMessageId > deliveries[d].userMessageId + 1
    /\ deliveries[d].chat.userId = deliveries[d].conn

\* s holds a as a contiguous part
IsInfix(a, s) ==
  \E i \in 0..(Len(s) - Len(a)) : SubSeq(s, i + 1, i + Len(a)) = a

\* the category instructions a system prompt holds
ProfilesGiven(system) ==
  {c \in DOMAIN CategoryInstructions :
     IsInfix(CategoryInstructions[c], system)}

\* a system prompt holds a context block: its introduction followed by the
\* context
ContextGiven(system, context) ==
  \E intro \in {BedrockContextIntro, AnthropicContextIntro} :
    IsInfix(<<intro>> \o context, system)

\* C23: the system prompt of every Response Generator implementation holds
\* the fixed instructions of its category and of no other, and holds the
\* supplied context exactly when that context is not empty, so that two
\* implementations called with the same category and context give the
\* model the same instructions and the same context.
C23_SameInstructionShape ==
  /\ \A i \in 1..Len(prompts) :
       /\ ProfilesGiven(prompts[i].system) = {prompts[i].category}
       /\ ContextGiven(prompts[i].system, prompts[i].context)
            <=> prompts[i].context # << >>
  /\ \A i, j \in 1..Len(prompts) :
       (prompts[i].category = prompts[j].category
          /\ prompts[i].context = prompts[j].context)
         => ProfilesGiven(prompts[i].system) = ProfilesGiven(prompts[j].system)

\* the Bedrock implementation alone has the shape C23 states
BedrockInstructionShape ==
  \A i \in 1..Len(prompts) :
    prompts[i].impl = "bedrock" =>
      /\ ProfilesGiven(prompts[i].system) = {prompts[i].category}
      /\ ContextGiven(prompts[i].system, prompts[i].context)
           <=> prompts[i].context # << >>

\* the webhook event is a message with no bot_id whose text mentions the bot
SlackQualifies(h) ==
  /\ ~slack[h].challenge
  /\ slack[h].event.type = "message" /\ ~slack[h].event.bot
  /\ slack[h].event.text # Undefined /\ isBotMentioned(slack[h].event.text)

\* no event authored by a bot, the echoes of the bridge's own notice and
\* replies included, starts the retrieve-then-generate entry point or makes
\* the bridge post
SlackNoFeedback ==
  \A h \in 1..Len(slack) :
    slack[h].event.bot =>
      /\ ~slack[h].triggered /\ slack[h].calls = << >>
      /\ slack[h].posted = << >> /\ slack[h].pc = "done"

SlackNoFeedbackWitness ==
  \E h \in 1..Len(slack) :
    /\ slack[h].event.bot /\ isBotMentioned(slack[h].event.text)
    /\ \E g \in 1..Len(slack) :
         Len(slack[g].posted) = 2 /\ slack[g].posted[2] = slack[h].event.text

\* C24: the Slack bridge calls the retrieve-then-generate entry point for
\* a webhook event if and only if the event is a message with no bot_id
\* whose text mentions the bot (a handler that has ended has called it
\* exactly when its event is one), and never for an event a bot authored.
C24_SlackTrigger ==
  /\ \A h \in 1..Len(slack) :
       /\ slack[h].triggered => SlackQualifies(h)
       /\ (slack[h].pc = "done" /\ SlackQualifies(h)) => slack[h].triggered
  /\ SlackNoFeedback

\* C25: once a question submission has been answered, the Question's
\* hasAiAnswer flag is true exactly when an AI-generated Answer is stored
\* for it, also when the comment write or the flag update of the AI step
\* has failed.
C25_FlagAgreesWithAnswers ==
  \A r \in 1..Len(postReqs) :
    (postReqs[r].pc = "done" /\ postReqs[r].postId # NoPost) =>
      (posts[postReqs[r].postId].hasAiAnswer
         <=> AiAnswers(postReqs[r].postId) # {})

\* no upload is being ingested and no delete is under way
DocumentsQuiescent ==
  /\ \A u \in 1..Len(uploads) : uploads[u].pc \in {"done", "processed", "failed"}
  /\ \A d \in 1..Len(deletes) : deletes[d].pc = "done"

\* C26: when no ingestion and no delete is under way, every entry of every
\* category index belongs to an existing Document Record of that category
\* whose embeddingId is the id of the entry.
C26_NoOrphanIndexEntries ==
  DocumentsQuiescent =>
    \A n \in DOMAIN index :
      \A e \in index[n] :
        \E id \in DOMAIN documents :
          /\ documents[id].embeddingId = e.id
          /\ e.docId = id
          /\ COLLECTION_NAMES[documents[id].category] = n

\* C27: every Chat Message persisted by a handler that has ended names an
\* existing Chat Session, and a chat_message frame whose handler found no
\* session for its chatId got one error event and stored no Chat Message.
C27_MessagesOfExistingSessions ==
  /\ \A d \in 1..Len(deliveries) :
       (deliveries[d].pc = "done"
          /\ deliveries[d].userMessageId \in DOMAIN aiChatMessages)
         => aiChatMessages[deliveries[d].userMessageId].chatId \in DOMAIN aiChats
  /\ \A d \in 1..Len(deliveries) :
       (deliveries[d].pc = "done" /\ deliveries[d].frame = "chat_message"
          /\ deliveries[d].userId # NoSession /\ ~deliveries[d].chat.found)
         => /\ Cardinality(SentOfType(d, "error")) = 1
            /\ deliveries[d].userMessageId = Null

\* no other delete request for the document of delete d went past the
\* permission check
OnlyDeleteAttempt(d) ==
  \A e \in 1..Len(deletes) :
    (e # d /\ deletes[e].documentId = deletes[d].documentId)
      => (deletes[e].pc = "done" /\ deletes[e].http \in {401, 403, 404})

\* C28: a delete that was answered 403 or 500 has changed nothing: the
\* Document Record it read, the file of that record and, for a processed
\* record, its index entry are all still there (as long as no other delete
\* removed them); a delete answered 404 found no record.
C28_FailedDeleteChangesNothing ==
  \A d \in 1..Len(deletes) :
    /\ deletes[d].http = 404 => deletes[d].document = NoDocument
    /\ (deletes[d].http \in {403, 500} /\ OnlyDeleteAttempt(d)) =>
         /\ deletes[d].documentId \in DOMAIN documents
         /\ deletes[d].document.filePath \in files
         /\ deletes[d].document.status = "processed" =>
              \E e \in index[COLLECTION_NAMES[deletes[d].document.category]] :
                e.id = deletes[d].document.embeddingId

\* the GET requests for a post that have been answered 200
CompletedReads(postId) ==
  {g \in 1..Len(gets) : gets[g].postId = postId /\ gets[g].http = 200}

\* C29: when no read of a Question is under way, its views value is the
\* number of reads of it that have completed (a Question is created with
\* views 0), and the reads have left hasAiAnswer and isAnswered as the AI
\* step and the comment route set them.
C29_ViewsCountEveryRead ==
  \A p \in DOMAIN posts :
    (\A g \in 1..Len(gets) : gets[g].postId = p => gets[g].pc = "done") =>
      /\ posts[p].views = Cardinality(CompletedReads(p))
      /\ posts[p].hasAiAnswer <=> p \in AiAnsweredPosts
      /\ posts[p].isAnswered <=>
           \E k \in 1..Len(commentReqs) :
             commentReqs[k].postId = p /\ commentReqs[k].http = 201

\* the reads leave the other fields of the Question alone
ViewsPreserveFlags ==
  \A p \in DOMAIN posts :
    /\ posts[p].hasAiAnswer <=> p \in AiAnsweredPosts
    /\ posts[p].isAnswered <=>
         \E k \in 1..Len(commentReqs) :
           commentReqs[k].postId = p /\ commentReqs[k].http = 201

\* no vote request is under way
VotesQuiescent == \A v \in 1..Len(voteReqs) : voteReqs[v].pc = "done"

\* the votes of one user on a comment
VotesOfUser(userId, commentId) ==
  {v \in VotesOfComment(commentId) : votes[v].userId = userId}

\* when no vote request is under way, the counts of every comment are the
\* numbers of its stored votes of each type
TallyExact ==
  VotesQuiescent =>
    \A c \in DOMAIN comments :
      /\ comments[c].upvotes =
           Cardinality({v \in VotesOfComment(c) : votes[v].voteType = "upvote"})
      /\ comments[c].downvotes =
           Cardinality({v \in VotesOfComment(c) : votes[v].voteType = "downvote"})

TallyExactWitness ==
  /\ VotesQuiescent
  /\ \E c \in DOMAIN comments : comments[c].upvotes = 1 /\ comments[c].downvotes = 1
  /\ \E v \in 1..Len(voteReqs) : voteReqs[v].existingVote # Null

\* C30: when no vote request is under way, each user holds at most one
\* vote on a comment, and the comment's upvotes and downvotes are the
\* numbers of its stored upvote and downvote votes.
C30_VoteToggleExactTally ==
  /\ VotesQuiescent =>
       \A c \in DOMAIN comments :
         \A u \in Users : Cardinality(VotesOfUser(u, c)) <= 1
  /\ TallyExact

====
